---- MODULE Spec2Model ----
(***************************************************************************)
(* The ingestion queue of TeleCompass (jobQueue, isProcessing,              *)
(* queuePolicyProcessing, processQueue, resolveBuffer, deletePolicy)        *)
(* together with the collaborators it drives: the relational store          *)
(* (Policy, PolicyChunk, PolicyFact), the vector index and                  *)
(* extractPolicyFacts; the read path over the same store (hybridSearch,     *)
(* ragQuery); and the gateway of the vector index (upsertVectors,           *)
(* deletePolicyVectors).                                                    *)
(*                                                                          *)
(* JavaScript runs one call stack at a time: code between two awaits is     *)
(* atomic.  Every action below is one such run-to-the-next-await segment.   *)
(* Every call of processQueue is an invocation of its own; invocation w is  *)
(* the one made by the w-th call of queuePolicyProcessing.                  *)
(***************************************************************************)
EXTENDS Integers, Sequences, FiniteSets, TLC

\* ---------------------------------------------------------------- bounds
MaxJobs == 2        \* calls of queuePolicyProcessing in one behaviour of Spec
MaxQueueJobs == 3   \* calls of queuePolicyProcessing in one behaviour of QueueSpec
MaxChunks == 1      \* chunks the extractor produces for one document
MaxDeletes == 1     \* calls of deletePolicy in one behaviour

\* ------------------------------------------------------ program constants
TopKCeiling == 10000     \* deletePolicyVectors: topK of the enumerating query

PolicyIds == {"p1", "p2"}
NoPath == "nopath"
FilePaths == {"tmpfile"}
NoJob == [id |-> 0]
JobIds == 1..(IF MaxJobs > MaxQueueJobs THEN MaxJobs ELSE MaxQueueJobs)

\* The steps of one job, in the order processQueue writes them.
StepOrder == <<"findPolicy", "resolveBuffer", "processPDF", "createMany",
               "extractFacts", "updateCompleted">>

VARIABLES
    policy,        \* relational Policy rows: id -> [exists, status, processedAt]
    policyChunk,   \* relational PolicyChunk rows
    policyFact,    \* relational PolicyFact rows
    vectorIndex,   \* entries of the vector index
    jobQueue,      \* the module-level job array
    isProcessing,  \* the module-level flag
    worker,        \* invocation of processQueue -> its position and locals
    jobs,          \* job id -> the IngestionJob object created by that call
    del,           \* deletePolicy calls: their position and locals
    clock,         \* the wall clock read by new Date()
    started,       \* history: the jobs shifted off the queue, in order, each
                   \* with the number of jobs it left behind in the queue
    stepsDone,     \* history: job id -> steps of the try block that returned
    failedAt,      \* history: job id -> step of the try block that raised
    statusWrites,  \* history: job id -> statuses its worker wrote, in order
    unlinkCount,   \* history: job id -> calls of fs.promises.unlink
    finished,      \* history: job id -> its try/catch/finally has been left
    notFound,      \* history: job id -> findUnique returned no policy for it
    fileReads,     \* history: job id -> calls of fs.promises.readFile
    rq,            \* the call of hybridSearch or ragQuery: position and locals
    gw,            \* the last call of upsertVectors: its argument and outcome
    fx,            \* the call of extractPolicyFacts made outside the queue
    parked         \* a second retrieval call, suspended at one of its awaits

vars == <<policy, policyChunk, policyFact, vectorIndex, jobQueue, isProcessing,
          worker, jobs, del, clock, started, stepsDone, failedAt, statusWrites,
          unlinkCount, finished, notFound, fileReads, rq, gw, fx, parked>>

store == <<policy, policyChunk, policyFact, vectorIndex, clock>>
hist == <<stepsDone, failedAt, statusWrites, unlinkCount, notFound, fileReads>>
ingest == <<jobQueue, isProcessing, worker, jobs, del, started, finished, hist>>
calls == <<rq, gw, fx, parked>>

\* -------------------------------------------------------------- helpers
AbsentPolicy == [exists |-> FALSE, status |-> "none", processedAt |-> 0]
PendingPolicy == [exists |-> TRUE, status |-> "pending", processedAt |-> 0]

\* stateFilter was not passed; no filter goes to the index.
NoStateFilter == [given |-> FALSE, states |-> {}]
NoFilter == [field |-> "none", anyOf |-> {}]
NoResponse == [answer |-> "none", confidence |-> <<0, 1>>, citations |-> <<>>,
               suggestedQueries |-> <<>>]

\* No call of hybridSearch or ragQuery has been made.
IdleRq == [op |-> "none", pc |-> "idle", stateFilter |-> NoStateFilter, topK |-> 0,
           history |-> <<>>, filter |-> NoFilter, asked |-> 0, matches |-> {},
           results |-> <<>>,
           fullChunks |-> {}, messages |-> <<>>, response |-> NoResponse,
           error |-> "none", fault |-> "none", reads |-> 0, generations |-> 0]

\* No call of upsertVectors has been made.
NoBatch == [policyId |-> "p1", doc |-> 0, n |-> 0, badAt |-> -1, badLength |-> 0]
IdleGw == [pc |-> "idle", batch |-> NoBatch, calls |-> 0]

\* No call of extractPolicyFacts outside the queue is under way.
IdleFx ==
    [pc |-> "idle", caller |-> 0, policyId |-> "p1", sent |-> <<>>,
     generations |-> 0, reply |-> <<>>, facts |-> <<>>, next |-> 1,
     created |-> 0, history |-> <<>>]

IdleWorker == [pc |-> "none", job |-> NoJob, escaping |-> FALSE, chunks |-> 0]

InLoopPcs == {"findPolicy", "resolveBuffer", "processPDF", "createMany",
              "factsLoad", "factsGenerate", "factsStore", "updateCompleted",
              "catch", "unlink"}

InLoop(w) == worker[w].pc \in InLoopPcs

NextJobId == Cardinality({j \in JobIds : jobs[j] # NoJob}) + 1

\* `${policyId}-chunk-${chunkIndex}`
VectorId(p, i) == <<p, "chunk", i>>

Init ==
    /\ \E existing \in {{"p1"}, {"p1", "p2"}} :
          policy = [p \in PolicyIds |->
                      IF p \in existing THEN PendingPolicy ELSE AbsentPolicy]
    /\ policyChunk = {}
    /\ policyFact = {}
    /\ vectorIndex = {}
    /\ jobQueue = <<>>
    /\ isProcessing = FALSE
    /\ worker = [w \in JobIds |-> IdleWorker]
    /\ jobs = [j \in JobIds |-> NoJob]
    /\ del = [d \in 1..MaxDeletes |-> [pc |-> "none", policyId |-> "p1", ids |-> {}]]
    /\ clock = 0
    /\ started = <<>>
    /\ stepsDone = [j \in JobIds |-> <<>>]
    /\ failedAt = [j \in JobIds |-> "none"]
    /\ statusWrites = [j \in JobIds |-> <<>>]
    /\ unlinkCount = [j \in JobIds |-> 0]
    /\ finished = [j \in JobIds |-> FALSE]
    /\ notFound = [j \in JobIds |-> FALSE]
    /\ fileReads = [j \in JobIds |-> 0]
    /\ rq = IdleRq
    /\ gw = IdleGw
    /\ fx = IdleFx
    /\ parked = IdleRq

\* ------------------------------------------------- processQueue: the loop
\* Mutant of LoopHead: jobQueue.pop() in place of jobQueue.shift().
LoopHeadLifo(w, q, f) ==
    /\ finished' = f
    /\ IF Len(q) > 0
       THEN /\ jobQueue' = SubSeq(q, 1, Len(q) - 1)
            /\ worker' = [worker EXCEPT ![w] =
                  [pc |-> "findPolicy", job |-> q[Len(q)], escaping |-> FALSE, chunks |-> 0]]
            /\ started' = Append(started, [id |-> q[Len(q)].id, behind |-> Len(q) - 1])
            /\ isProcessing' = TRUE
       ELSE /\ jobQueue' = q
            /\ worker' = [worker EXCEPT ![w] =
                  [pc |-> "returned", job |-> NoJob, escaping |-> FALSE, chunks |-> 0]]
            /\ started' = started
            /\ isProcessing' = FALSE

\* The head of the while loop, run by invocation w on queue q with the
\* finished-map f: shift the next job and suspend at the first await, or
\* leave the loop and clear the flag.
LoopHead(w, q, f) ==
    /\ finished' = f
    /\ IF Len(q) > 0
       THEN /\ jobQueue' = Tail(q)
            /\ worker' = [worker EXCEPT ![w] =
                  [pc |-> "findPolicy", job |-> Head(q), escaping |-> FALSE, chunks |-> 0]]
            /\ started' = Append(started, [id |-> Head(q).id, behind |-> Len(q) - 1])
            /\ isProcessing' = TRUE
       ELSE /\ jobQueue' = q
            /\ worker' = [worker EXCEPT ![w] =
                  [pc |-> "returned", job |-> NoJob, escaping |-> FALSE, chunks |-> 0]]
            /\ started' = started
            /\ isProcessing' = FALSE

\* Mutant of ProcessQueueEntry: the if (isProcessing) return is missing.
ProcessQueueEntryUnguarded(w, q) == LoopHead(w, q, finished)

\* processQueue as called by queuePolicyProcessing, up to its first await.
ProcessQueueEntry(w, q) ==
    IF isProcessing
    THEN /\ worker' = [worker EXCEPT ![w].pc = "returned"]
         /\ jobQueue' = q
         /\ UNCHANGED <<isProcessing, started, finished>>
    ELSE LoopHead(w, q, finished)

\* queuePolicyProcessing(policyId, buffer, {filePath, deleteFileAfter})
queuePolicyProcessing(p, buf, path, delAfter) ==
    /\ LET id == NextJobId
           job == [id |-> id, policyId |-> p, buffer |-> buf,
                   filePath |-> path, deleteFileAfter |-> delAfter]
       IN /\ jobs' = [jobs EXCEPT ![id] = job]
          /\ ProcessQueueEntry(id, Append(jobQueue, job))
    /\ UNCHANGED <<calls, store, hist, del>>

\* Mutant of Leave: processQueue handles one job a call, so the flag is
\* cleared at the end of the iteration whatever the queue holds.
LeaveAfterOne(w, escaping) ==
    /\ worker' = [worker EXCEPT ![w] =
          [pc |-> IF escaping THEN "rejected" ELSE "returned",
           job |-> IF escaping THEN worker[w].job ELSE NoJob,
           escaping |-> FALSE, chunks |-> 0]]
    /\ finished' = [finished EXCEPT ![worker[w].job.id] = TRUE]
    /\ isProcessing' = FALSE
    /\ UNCHANGED <<jobQueue, started>>

\* The end of one iteration: the finally block has completed (or had nothing
\* to do).  A pending exception leaves processQueue, whose promise rejects
\* (the record keeps the job that did it); otherwise the loop condition is
\* evaluated at once.
Leave(w, escaping) ==
    LET f == [finished EXCEPT ![worker[w].job.id] = TRUE]
    IN IF escaping
       THEN /\ worker' = [worker EXCEPT ![w] =
                  [pc |-> "rejected", job |-> worker[w].job, escaping |-> FALSE, chunks |-> 0]]
            /\ finished' = f
            /\ UNCHANGED <<jobQueue, isProcessing, started>>
       ELSE LoopHead(w, jobQueue, f)

\* Mutant of Finally: the cleanup sits after the try/catch instead of in a
\* finally block, so an exception leaving the catch block skips it.
FinallySkipsOnError(w, escaping) ==
    LET job == worker[w].job
    IN IF ~escaping /\ job.deleteFileAfter /\ job.filePath # NoPath
       THEN /\ worker' = [worker EXCEPT ![w].pc = "unlink", ![w].escaping = escaping]
            /\ UNCHANGED <<jobQueue, isProcessing, started, finished>>
       ELSE Leave(w, escaping)

\* Entry of the finally block, with or without an exception on its way out.
Finally(w, escaping) ==
    LET job == worker[w].job
    IN IF job.deleteFileAfter /\ job.filePath # NoPath
       THEN /\ worker' = [worker EXCEPT ![w].pc = "unlink", ![w].escaping = escaping]
            /\ UNCHANGED <<jobQueue, isProcessing, started, finished>>
       ELSE Leave(w, escaping)

\* A step of the try block raised: control moves to the catch block, which
\* suspends at its await of prisma.policy.update.
Throw(w, step) ==
    /\ worker' = [worker EXCEPT ![w].pc = "catch"]
    /\ failedAt' = [failedAt EXCEPT ![worker[w].job.id] = step]
    /\ UNCHANGED <<calls, jobQueue, isProcessing, started, finished, stepsDone>>

\* A step of the try block returned: control moves to the next await.
Proceed(w, step, next, n) ==
    /\ worker' = [worker EXCEPT ![w].pc = next, ![w].chunks = n]
    /\ stepsDone' = [stepsDone EXCEPT ![worker[w].job.id] = Append(@, step)]
    /\ UNCHANGED <<calls, jobQueue, isProcessing, started, finished, failedAt>>

\* ------------------------------------------- processQueue: the try block
\* Relational integrity: a PolicyChunk or PolicyFact row needs its Policy.
ForeignKeyHolds(p) == policy[p].exists

\* Every action of an external call takes ok: whether the collaborator
\* answered (TRUE) or the call rejected for a reason outside the program.

\* Mutant of FindPolicy: the if (!policy) throw is missing.
FindPolicyUnchecked(w, ok) ==
    /\ worker[w].pc = "findPolicy"
    /\ LET job == worker[w].job
       IN /\ notFound' = [notFound EXCEPT ![job.id] = ok /\ ~policy[job.policyId].exists]
          /\ IF ok
             THEN Proceed(w, "findPolicy", "resolveBuffer", 0)
             ELSE Throw(w, "findPolicy")
    /\ UNCHANGED <<calls, fileReads, store, statusWrites, unlinkCount, jobs, del>>

\* await prisma.policy.findUnique(...); if (!policy) throw
FindPolicy(w, ok) ==
    /\ worker[w].pc = "findPolicy"
    /\ LET job == worker[w].job
       IN /\ notFound' = [notFound EXCEPT ![job.id] = ok /\ ~policy[job.policyId].exists]
          /\ IF ok /\ policy[job.policyId].exists
             THEN Proceed(w, "findPolicy", "resolveBuffer", 0)
             ELSE Throw(w, "findPolicy")
    /\ UNCHANGED <<calls, fileReads, store, statusWrites, unlinkCount, jobs, del>>

\* Mutant of resolveBuffer: the file path is looked at before the buffer.
resolveBufferFileFirst(job) ==
    IF job.filePath # NoPath THEN "file"
    ELSE IF job.buffer THEN "buffer"
    ELSE "throw"

\* resolveBuffer(job): the buffer if there is one, else the file, else throw.
resolveBuffer(job) ==
    IF job.buffer THEN "buffer"
    ELSE IF job.filePath # NoPath THEN "file"
    ELSE "throw"

\* const buffer = await resolveBuffer(job); only readFile is an external call
ResolveBuffer(w, ok) ==
    /\ worker[w].pc = "resolveBuffer"
    /\ LET src == resolveBuffer(worker[w].job)
       IN /\ ok \/ src = "file"
          /\ fileReads' = [fileReads EXCEPT ![worker[w].job.id] =
                               IF src = "file" THEN @ + 1 ELSE @]
          /\ IF src # "throw" /\ ok
             THEN Proceed(w, "resolveBuffer", "processPDF", 0)
             ELSE Throw(w, "resolveBuffer")
    /\ UNCHANGED <<calls, store, statusWrites, unlinkCount, jobs, del, notFound>>

\* The vector entries of the first n chunks of job's document.
Entries(job, n) ==
    {[id |-> VectorId(job.policyId, i), policyId |-> job.policyId,
      chunkIndex |-> i, doc |-> job.id] : i \in 0..(n - 1)}

\* Mutant of upsertVectors: the entries are added and none is replaced.
upsertVectorsAppending(index, entries) == index \cup entries

\* upsertVectors: an entry replaces the one with the same id.
upsertVectors(index, entries) ==
    {e \in index : \A n \in entries : n.id # e.id} \cup entries

\* processAndStorePDF: extract, chunk, embed and upsert; the index after m
\* chunks of the document have been upserted.
processAndStorePDF(index, job, m) == upsertVectors(index, Entries(job, m))

\* const processed = await processAndStorePDF(buffer, job.policyId, ...):
\* the document has n chunks; the call returns them after upserting all of
\* them, or rejects before any was upserted or after the upsert went through.
ProcessPDF(w, ok, n, m) ==
    /\ worker[w].pc = "processPDF"
    /\ m \in {0, n}
    /\ ok => m = n
    /\ vectorIndex' = processAndStorePDF(vectorIndex, worker[w].job, m)
    /\ IF ok
       THEN Proceed(w, "processPDF", "createMany", n)
       ELSE Throw(w, "processPDF")
    /\ UNCHANGED <<calls, fileReads, policy, policyChunk, policyFact, clock, statusWrites,
                   unlinkCount, jobs, del, notFound>>

\* Mutant of CreateMany: the call of extractPolicyFacts is missing, so the
\* job goes from the chunk rows straight to the status update.
CreateManyThenComplete(w, ok) ==
    /\ worker[w].pc = "createMany"
    /\ LET job == worker[w].job
       IN IF ok /\ ForeignKeyHolds(job.policyId)
          THEN /\ policyChunk' = policyChunk \cup
                    {[policyId |-> job.policyId, chunkIndex |-> i, doc |-> job.id] :
                        i \in 0..(worker[w].chunks - 1)}
               /\ Proceed(w, "createMany", "updateCompleted", worker[w].chunks)
          ELSE /\ policyChunk' = policyChunk
               /\ Throw(w, "createMany")
    /\ UNCHANGED <<calls, fileReads, policy, policyFact, vectorIndex, clock, statusWrites,
                   unlinkCount, jobs, del, notFound>>

\* await prisma.policyChunk.createMany({data: processed.chunks.map(...)})
CreateMany(w, ok) ==
    /\ worker[w].pc = "createMany"
    /\ LET job == worker[w].job
       IN IF ok /\ ForeignKeyHolds(job.policyId)
          THEN /\ policyChunk' = policyChunk \cup
                    {[policyId |-> job.policyId, chunkIndex |-> i, doc |-> job.id] :
                        i \in 0..(worker[w].chunks - 1)}
               /\ Proceed(w, "createMany", "factsLoad", worker[w].chunks)
          ELSE /\ policyChunk' = policyChunk
               /\ Throw(w, "createMany")
    /\ UNCHANGED <<calls, fileReads, policy, policyFact, vectorIndex, clock, statusWrites,
                   unlinkCount, jobs, del, notFound>>

\* extractPolicyFacts: await prisma.policy.findUnique(...); if (!policy) throw
FactsLoad(w, ok) ==
    /\ worker[w].pc = "factsLoad"
    /\ IF ok /\ policy[worker[w].job.policyId].exists
       THEN /\ worker' = [worker EXCEPT ![w].pc = "factsGenerate"]
            /\ UNCHANGED <<jobQueue, isProcessing, started, finished,
                           stepsDone, failedAt>>
       ELSE Throw(w, "extractFacts")
    /\ UNCHANGED <<calls, fileReads, store, statusWrites, unlinkCount, jobs, del, notFound>>

\* What the model's reply can be: text without a {...} span, a span that is
\* not JSON, or an object with a facts array.
GenOutputs == {"prose", "badjson", "facts"}

\* The number of facts parsed from a reply: none unless the span parses.
ParsedFacts(out) == IF out = "facts" THEN 1 ELSE 0

\* extractPolicyFacts: await generateChatCompletion(...), then match and parse
FactsGenerate(w, ok, out) ==
    /\ worker[w].pc = "factsGenerate"
    /\ ok \/ out = "prose"
    /\ IF ~ok THEN Throw(w, "extractFacts")
       ELSE IF ParsedFacts(out) > 0
       THEN /\ worker' = [worker EXCEPT ![w].pc = "factsStore"]
            /\ UNCHANGED <<jobQueue, isProcessing, started, finished,
                           stepsDone, failedAt>>
       ELSE Proceed(w, "extractFacts", "updateCompleted", worker[w].chunks)
    /\ UNCHANGED <<calls, fileReads, store, statusWrites, unlinkCount, jobs, del, notFound>>

\* extractPolicyFacts: for (const fact of result.facts) await policyFact.create
FactsStore(w, ok) ==
    /\ worker[w].pc = "factsStore"
    /\ LET job == worker[w].job
       IN IF ok /\ ForeignKeyHolds(job.policyId)
          THEN /\ policyFact' = policyFact \cup
                     {[policyId |-> job.policyId, doc |-> job.id, n |-> 1]}
               /\ Proceed(w, "extractFacts", "updateCompleted", worker[w].chunks)
          ELSE /\ policyFact' = policyFact
               /\ Throw(w, "extractFacts")
    /\ UNCHANGED <<calls, fileReads, policy, policyChunk, vectorIndex, clock, statusWrites,
                   unlinkCount, jobs, del, notFound>>

\* Mutant of UpdateCompleted: the update is not the last statement of the
\* try block, and the statement after it throws.
UpdateCompletedThenThrow(w, ok) ==
    /\ worker[w].pc = "updateCompleted"
    /\ LET job == worker[w].job
       IN IF ok /\ policy[job.policyId].exists
          THEN /\ clock' = clock + 1
               /\ policy' = [policy EXCEPT ![job.policyId].status = "completed",
                                           ![job.policyId].processedAt = clock + 1]
               /\ statusWrites' = [statusWrites EXCEPT ![job.id] = Append(@, "completed")]
               /\ stepsDone' = [stepsDone EXCEPT ![job.id] = Append(@, "updateCompleted")]
               /\ failedAt' = failedAt
               /\ worker' = [worker EXCEPT ![w].pc = "catch"]
               /\ UNCHANGED <<jobQueue, isProcessing, started, finished>>
          ELSE /\ UNCHANGED <<clock, policy, statusWrites>>
               /\ Throw(w, "updateCompleted")
    /\ UNCHANGED <<calls, fileReads, policyChunk, policyFact, vectorIndex, unlinkCount, jobs, del, notFound>>

\* await prisma.policy.update({data: {status: "completed", processedAt: new Date()}});
\* update rejects when no row has that id.
UpdateCompleted(w, ok) ==
    /\ worker[w].pc = "updateCompleted"
    /\ LET job == worker[w].job
       IN IF ok /\ policy[job.policyId].exists
          THEN /\ clock' = clock + 1
               /\ policy' = [policy EXCEPT ![job.policyId].status = "completed",
                                           ![job.policyId].processedAt = clock + 1]
               /\ statusWrites' = [statusWrites EXCEPT ![job.id] = Append(@, "completed")]
               /\ stepsDone' = [stepsDone EXCEPT ![job.id] = Append(@, "updateCompleted")]
               /\ failedAt' = failedAt
               /\ Finally(w, FALSE)
          ELSE /\ UNCHANGED <<clock, policy, statusWrites>>
               /\ Throw(w, "updateCompleted")
    /\ UNCHANGED <<calls, fileReads, policyChunk, policyFact, vectorIndex, unlinkCount, jobs, del, notFound>>

\* ------------------------------------- processQueue: catch and finally
\* Mutant of CatchUpdate: the update has no where clause (updateMany), so
\* every Policy row is set to failed.
CatchUpdateEveryPolicy(w, ok) ==
    /\ worker[w].pc = "catch"
    /\ LET job == worker[w].job
       IN IF ok /\ policy[job.policyId].exists
          THEN /\ policy' = [q \in PolicyIds |->
                                IF policy[q].exists
                                THEN [policy[q] EXCEPT !.status = "failed"]
                                ELSE policy[q]]
               /\ statusWrites' = [statusWrites EXCEPT ![job.id] = Append(@, "failed")]
               /\ Finally(w, FALSE)
          ELSE /\ UNCHANGED <<policy, statusWrites>>
               /\ Finally(w, TRUE)
    /\ UNCHANGED <<calls, fileReads, policyChunk, policyFact, vectorIndex, clock, stepsDone, failedAt,
                   unlinkCount, jobs, del, notFound>>

\* Mutant of CatchUpdate: the failed status is written together with a
\* processedAt.
CatchUpdateStamping(w, ok) ==
    /\ worker[w].pc = "catch"
    /\ LET job == worker[w].job
       IN IF ok /\ policy[job.policyId].exists
          THEN /\ policy' = [policy EXCEPT ![job.policyId].status = "failed",
                                           ![job.policyId].processedAt = clock + 1]
               /\ statusWrites' = [statusWrites EXCEPT ![job.id] = Append(@, "failed")]
               /\ Finally(w, FALSE)
          ELSE /\ UNCHANGED <<policy, statusWrites>>
               /\ Finally(w, TRUE)
    /\ UNCHANGED <<calls, fileReads, policyChunk, policyFact, vectorIndex, clock, stepsDone, failedAt,
                   unlinkCount, jobs, del, notFound>>

\* catch: await prisma.policy.update({data: {status: "failed"}}).  update
\* rejects when no row has that id; then the exception leaves the catch
\* block, the finally block runs and the exception leaves processQueue.
CatchUpdate(w, ok) ==
    /\ worker[w].pc = "catch"
    /\ LET job == worker[w].job
       IN IF ok /\ policy[job.policyId].exists
          THEN /\ policy' = [policy EXCEPT ![job.policyId].status = "failed"]
               /\ statusWrites' = [statusWrites EXCEPT ![job.id] = Append(@, "failed")]
               /\ Finally(w, FALSE)
          ELSE /\ UNCHANGED <<policy, statusWrites>>
               /\ Finally(w, TRUE)
    /\ UNCHANGED <<calls, fileReads, policyChunk, policyFact, vectorIndex, clock, stepsDone, failedAt,
                   unlinkCount, jobs, del, notFound>>

\* finally: try { await fs.promises.unlink(job.filePath) } catch { warn }
Unlink(w, ok) ==
    /\ worker[w].pc = "unlink"
    /\ unlinkCount' = [unlinkCount EXCEPT ![worker[w].job.id] = @ + 1]
    /\ Leave(w, worker[w].escaping)
    /\ UNCHANGED <<calls, fileReads, store, stepsDone, failedAt, statusWrites, jobs, del, notFound>>

\* ------------------------------------------------------------ deletePolicy
Min(a, b) == IF a < b THEN a ELSE b

\* The rows left when the delete of Policy p has cascaded.
CascadeDelete(rows, p) == {r \in rows : r.policyId # p}

\* Mutant of DeletePolicyStart: the rejection of prisma.policy.delete is
\* swallowed, so the vector entries are deleted whatever became of the row.
DeletePolicyStartSwallowing(d, p, ok) ==
    /\ del[d].pc = "none"
    /\ \A e \in 1..(d - 1) : del[e].pc # "none"
    /\ IF ok /\ policy[p].exists
       THEN /\ policy' = [policy EXCEPT ![p] = AbsentPolicy]
            /\ policyChunk' = CascadeDelete(policyChunk, p)
            /\ policyFact' = CascadeDelete(policyFact, p)
       ELSE UNCHANGED <<policy, policyChunk, policyFact>>
    /\ del' = [del EXCEPT ![d] = [pc |-> "query", policyId |-> p, ids |-> {}]]
    /\ UNCHANGED <<calls, vectorIndex, clock, jobQueue, isProcessing, worker, jobs, started,
                   finished, hist>>

\* deletePolicy: await prisma.policy.delete({where: {id}}); the delete
\* cascades to the chunk and fact rows; it rejects when there is no such row.
DeletePolicyStart(d, p, ok) ==
    /\ del[d].pc = "none"
    /\ \A e \in 1..(d - 1) : del[e].pc # "none"
    /\ IF ok /\ policy[p].exists
       THEN /\ policy' = [policy EXCEPT ![p] = AbsentPolicy]
            /\ policyChunk' = CascadeDelete(policyChunk, p)
            /\ policyFact' = CascadeDelete(policyFact, p)
            /\ del' = [del EXCEPT ![d] = [pc |-> "query", policyId |-> p, ids |-> {}]]
       ELSE /\ UNCHANGED <<policy, policyChunk, policyFact>>
            /\ del' = [del EXCEPT ![d] = [pc |-> "failed", policyId |-> p, ids |-> {}]]
    /\ UNCHANGED <<calls, vectorIndex, clock, jobQueue, isProcessing, worker, jobs, started,
                   finished, hist>>

\* The vector ids without the excess of them that have the highest, or the
\* lowest, chunk indexes.
RECURSIVE Trim(_, _, _)
Trim(ids, excess, highest) ==
    IF excess = 0 THEN ids
    ELSE LET idx == {id[3] : id \in ids}
             i == IF highest
                  THEN CHOOSE i \in idx : (i + 1) \notin idx /\ \A j \in idx : j <= i
                  ELSE CHOOSE i \in idx : (i - 1) \notin idx /\ \A j \in idx : j >= i
         IN Trim({id \in ids : id[3] # i}, excess - 1, highest)

\* The answers the index can give when asked for the topK of the vector
\* ids, all equally near the zero vector: all of them when they are not
\* more than topK; otherwise topK of them, and which is the index's choice,
\* of which the model follows two, the lowest and the highest chunk indexes.
TopKOf(ids, topK) ==
    LET n == Cardinality(ids)
    IN IF n <= topK THEN {ids}
       ELSE {Trim(ids, n - topK, TRUE), Trim(ids, n - topK, FALSE)}

\* deletePolicyVectors: query({vector: zeros, filter: {policyId}, topK: 10000})
DeleteQuery(d, ok) ==
    /\ del[d].pc = "query"
    /\ LET matching == {e.id : e \in {x \in vectorIndex : x.policyId = del[d].policyId}}
       IN \E ids \in TopKOf(matching, TopKCeiling) :
            /\ Cardinality(ids) = Min(TopKCeiling, Cardinality(matching))
            /\ del' = [del EXCEPT ![d].pc = IF ~ok THEN "failed"
                                            ELSE IF ids = {} THEN "done"
                                            ELSE "deleteMany",
                                  ![d].ids = IF ok THEN ids ELSE {}]
    /\ UNCHANGED <<calls, store, jobQueue, isProcessing, worker, jobs, started, finished, hist>>

\* Mutant of DeleteMany: only the first of the vector ids is deleted.
DeleteManyFirstOnly(d, ok) ==
    /\ del[d].pc = "deleteMany"
    /\ vectorIndex' = IF ok THEN {e \in vectorIndex : e.id \notin Trim(del[d].ids, Cardinality(del[d].ids) - 1, TRUE)}
                      ELSE vectorIndex
    /\ del' = [del EXCEPT ![d].pc = IF ok THEN "done" ELSE "failed", ![d].ids = {}]
    /\ UNCHANGED <<calls, policy, policyChunk, policyFact, clock, jobQueue, isProcessing,
                   worker, jobs, started, finished, hist>>

\* deletePolicyVectors: await pineconeIndex.deleteMany(vectorIds)
DeleteMany(d, ok) ==
    /\ del[d].pc = "deleteMany"
    /\ vectorIndex' = IF ok THEN {e \in vectorIndex : e.id \notin del[d].ids}
                      ELSE vectorIndex
    /\ del' = [del EXCEPT ![d].pc = IF ok THEN "done" ELSE "failed", ![d].ids = {}]
    /\ UNCHANGED <<calls, policy, policyChunk, policyFact, clock, jobQueue, isProcessing,
                   worker, jobs, started, finished, hist>>

\* -------------------------------------------------------- specifications
\* What a caller can pass as buffer, options.filePath, options.deleteFileAfter.
Payloads == BOOLEAN \X (FilePaths \cup {NoPath}) \X BOOLEAN

\* The payloads of QueueSpec: a buffer, a temporary file, nothing at all.
QueuePayloads == {<<TRUE, NoPath, FALSE>>, <<FALSE, "tmpfile", TRUE>>,
                  <<FALSE, NoPath, FALSE>>}

Enqueue(limit, payloads) ==
    /\ NextJobId <= limit
    /\ \E p \in PolicyIds, k \in payloads : queuePolicyProcessing(p, k[1], k[2], k[3])

\* Any interleaving of callers, the worker and deletePolicy; any external
\* call may reject.
Next ==
    \/ Enqueue(MaxJobs, Payloads)
    \/ \E w \in JobIds, ok \in BOOLEAN : FindPolicy(w, ok)
    \/ \E w \in JobIds, ok \in BOOLEAN : ResolveBuffer(w, ok)
    \/ \E w \in JobIds, ok \in BOOLEAN, n \in 1..MaxChunks, m \in 0..MaxChunks :
          ProcessPDF(w, ok, n, m)
    \/ \E w \in JobIds, ok \in BOOLEAN : CreateMany(w, ok)
    \/ \E w \in JobIds, ok \in BOOLEAN : FactsLoad(w, ok)
    \/ \E w \in JobIds, ok \in BOOLEAN, out \in GenOutputs : FactsGenerate(w, ok, out)
    \/ \E w \in JobIds, ok \in BOOLEAN : FactsStore(w, ok)
    \/ \E w \in JobIds, ok \in BOOLEAN : UpdateCompleted(w, ok)
    \/ \E w \in JobIds, ok \in BOOLEAN : CatchUpdate(w, ok)
    \/ \E w \in JobIds, ok \in BOOLEAN : Unlink(w, ok)
    \/ \E d \in 1..MaxDeletes, p \in PolicyIds, ok \in BOOLEAN : DeletePolicyStart(d, p, ok)
    \/ \E d \in 1..MaxDeletes, ok \in BOOLEAN : DeleteQuery(d, ok)
    \/ \E d \in 1..MaxDeletes, ok \in BOOLEAN : DeleteMany(d, ok)

Spec == Init /\ [][Next]_vars

\* The queue on its own: more jobs, every external call answers, and no
\* policy is deleted.  A job still fails where the code itself throws (no
\* such policy, no buffer and no path).
QueueNext ==
    \/ Enqueue(MaxQueueJobs, QueuePayloads)
    \/ \E w \in JobIds : FindPolicy(w, TRUE)
    \/ \E w \in JobIds : ResolveBuffer(w, TRUE)
    \/ \E w \in JobIds, n \in 1..MaxChunks : ProcessPDF(w, TRUE, n, n)
    \/ \E w \in JobIds : CreateMany(w, TRUE)
    \/ \E w \in JobIds : FactsLoad(w, TRUE)
    \/ \E w \in JobIds, out \in GenOutputs : FactsGenerate(w, TRUE, out)
    \/ \E w \in JobIds : FactsStore(w, TRUE)
    \/ \E w \in JobIds : UpdateCompleted(w, TRUE)
    \/ \E w \in JobIds : CatchUpdate(w, TRUE)
    \/ \E w \in JobIds : Unlink(w, TRUE)

QueueSpec == Init /\ [][QueueNext]_vars

\* ------------------------------------------------------------ properties
Enqueued(j) == jobs[j] # NoJob
StartCount(j) == Cardinality({i \in 1..Len(started) : started[i].id = j})
ActiveWorkers == {w \in JobIds : InLoop(w)}
\* No invocation of processQueue is inside the loop: nothing in the program
\* will touch the queue until queuePolicyProcessing is called again.
Quiescent == ActiveWorkers = {}
StepsOneToFive == {"findPolicy", "resolveBuffer", "processPDF", "createMany",
                   "extractFacts"}
RaisedInSteps(j) == failedAt[j] \in StepsOneToFive

\* C1: a job that raised in one of steps 1-5 never takes the worker loop
\* down: the invocation that ran it does not end rejected, and no job is
\* left in the queue with no worker in the loop.
C1_FailedJobKeepsLoopAlive ==
    \A j \in JobIds :
        (finished[j] /\ RaisedInSteps(j)) =>
            /\ \A w \in JobIds : ~(worker[w].pc = "rejected" /\ worker[w].job.id = j)
            /\ (jobQueue # <<>> => ~Quiescent)

\* C2: a finished job that raised in one of steps 1-5 and whose Policy row
\* exists has written the status failed, once, and nothing else.
C2_FailedJobMarksPolicyFailed ==
    \A j \in JobIds :
        (finished[j] /\ RaisedInSteps(j) /\ policy[jobs[j].policyId].exists) =>
            statusWrites[j] = <<"failed">>

\* C3: at most one invocation of processQueue is inside the loop, and a call
\* of queuePolicyProcessing made while one is only appends its job.
C3_SingleWorker ==
    /\ [](Cardinality(ActiveWorkers) <= 1)
    /\ [][\A j \in JobIds :
            (~Enqueued(j) /\ Enqueued(j)' /\ ActiveWorkers # {}) =>
                /\ jobQueue' = Append(jobQueue, jobs'[j])
                /\ ActiveWorkers' = ActiveWorkers
                /\ worker'[j].pc = "returned"
                /\ started' = started]_vars

\* Two calls arrived while the worker was busy with the first job.
C3_Witness ==
    \E w \in JobIds : InLoop(w) /\ Len(jobQueue) = 2 /\ worker[3].pc = "returned"

\* C4: jobs start in the order of their enqueueing (job ids count the calls
\* of queuePolicyProcessing), a job starts only when every earlier one has
\* left its try/catch/finally, and queuePolicyProcessing returns before
\* any step of its job has completed.
C4_Fifo ==
    /\ [](\A i \in 1..Len(started) :
            /\ started[i].id = i
            /\ \A k \in 1..(i - 1) : finished[k])
    /\ [][\A j \in JobIds :
            (~Enqueued(j) /\ Enqueued(j)') =>
                /\ ~finished'[j]
                /\ stepsDone'[j] = <<>>
                /\ statusWrites'[j] = <<>>
                /\ failedAt'[j] = "none"]_vars

\* The second job was shifted off the queue while the third waited behind
\* it, and the third has started after it.
C4_Witness ==
    /\ Len(started) = 3
    /\ started[2].behind = 1
    /\ finished[2]

\* C5: every enqueued job is shifted off the queue and run exactly once:
\* never twice, and once the program has come to rest, not zero times.
C5_ExactlyOnce ==
    /\ \A j \in JobIds : StartCount(j) <= 1
    /\ Quiescent => \A j \in JobIds : Enqueued(j) => StartCount(j) = 1

\* The status a job has reached: where its Policy row exists, the row's
\* status is completed or failed.
Terminal(j) ==
    /\ finished[j]
    /\ policy[jobs[j].policyId].exists =>
          policy[jobs[j].policyId].status \in {"completed", "failed"}

\* C6: two jobs for different policies were enqueued and every external
\* call answers: when the program has come to rest both jobs have reached a
\* terminal outcome, the queue is empty and the flag is cleared.
C6_TwoJobsDrain ==
    (/\ Enqueued(1) /\ Enqueued(2)
     /\ jobs[1].policyId # jobs[2].policyId
     /\ Quiescent)
    => /\ Terminal(1) /\ Terminal(2)
       /\ jobQueue = <<>>
       /\ ~isProcessing

RowsOf(q) == {c \in policyChunk : c.policyId = q}
FactsOf(q) == {f \in policyFact : f.policyId = q}

\* C7: no step of a job, its failure handling included, changes the Policy
\* row, the chunk rows or the facts of a policy other than the job's own.
C7_FailureIsJobLocal ==
    [][\A w \in JobIds :
          (InLoop(w) /\ worker'[w] # worker[w]) =>
              \A q \in PolicyIds \ {worker[w].job.policyId} :
                  /\ policy'[q] = policy[q]
                  /\ RowsOf(q)' = RowsOf(q)
                  /\ FactsOf(q)' = FactsOf(q)]_vars

\* Job 1 completed its policy, then job 2 failed on another policy and was
\* recorded as failed; the first policy is still completed.
C7_Witness ==
    /\ Enqueued(1) /\ Enqueued(2)
    /\ jobs[1].policyId # jobs[2].policyId
    /\ statusWrites[1] = <<"completed">>
    /\ statusWrites[2] = <<"failed">>
    /\ finished[2]
    /\ policy[jobs[1].policyId].status = "completed"
    /\ policy[jobs[1].policyId].processedAt # 0
    /\ RowsOf(jobs[1].policyId) # {}

\* C8: a job whose policy was not found ran no later step, wrote nothing
\* to the vector index or the relational store, and was started only once.
C8_MissingPolicyFailsAtOnce ==
    \A j \in JobIds :
        notFound[j] =>
            /\ stepsDone[j] = <<>>
            /\ failedAt[j] = "findPolicy"
            /\ StartCount(j) = 1
            /\ \A e \in vectorIndex : e.doc # j
            /\ \A c \in policyChunk : c.doc # j
            /\ \A f \in policyFact : f.doc # j
            /\ \A w \in JobIds :
                  worker[w].job.id = j => worker[w].pc \in {"catch", "unlink", "rejected"}

\* A job for a missing policy has been through catch and finally while
\* another job waits in the queue.
C8_Witness ==
    \E j \in JobIds : notFound[j] /\ finished[j] /\ jobQueue # <<>>

IsPrefix(a, b) == Len(a) <= Len(b) /\ \A i \in 1..Len(a) : a[i] = b[i]

ExpectedUnlinks(j) ==
    IF jobs[j].deleteFileAfter /\ jobs[j].filePath # NoPath THEN 1 ELSE 0

\* C10: a job never calls unlink more often than it must, and once it has
\* left its finally block (so before any later job starts) it has made
\* exactly the calls it must: one with a path and the flag, else none.
C10_CleanupExactlyOnce ==
    \A j \in JobIds :
        Enqueued(j) =>
            /\ unlinkCount[j] <= ExpectedUnlinks(j)
            /\ (finished[j] \/ \E i \in 1..Len(started) : started[i].id > j)
                  => unlinkCount[j] = ExpectedUnlinks(j)

\* A file-backed job raised, its failure handler raised too, and the file
\* was still unlinked once; another such job completed and unlinked once.
C10_Witness ==
    /\ \E j \in JobIds :
          /\ finished[j] /\ unlinkCount[j] = 1 /\ failedAt[j] # "none"
          /\ \E w \in JobIds : worker[w].pc = "rejected" /\ worker[w].job.id = j
    /\ \E j \in JobIds :
          finished[j] /\ unlinkCount[j] = 1 /\ statusWrites[j] = <<"completed">>

\* ------------------------------------------------------------ retrieval
\* hybridSearch and ragQuery (lib/rag.ts) over the store the pipeline fills.
\* Similarities are in hundredths: 70 is the score 0.70.

\* ---------------------------------------------------------------- bounds
MaxTopK == 2        \* largest topK a caller of hybridSearch passes
MaxHistory == 11    \* longest conversation history a caller of ragQuery passes

\* ------------------------------------------------------ program constants
SIMILARITY_THRESHOLD == 70
TOP_K_RESULTS == 5
HistoryLimit == 10       \* history.slice(-10)
PreviewLength == 500     \* metadata.content = chunk.content.slice(0, 500)

NoScore == -1            \* match.score === undefined
Scores == {69, 70, 100, NoScore}

\* policy.state.name of the two policies
StateName(p) == IF p = "p1" THEN "Texas" ELSE "Ohio"
StateNames == {StateName(p) : p \in PolicyIds}
StateFilters ==
    {NoStateFilter} \cup {[given |-> TRUE, states |-> S] : S \in SUBSET StateNames}

\* The text of chunk i of document doc: which text it is and how long.
ChunkContent(doc, i) ==
    [text |-> <<doc, i>>,
     length |-> IF doc = 1 THEN 2000 ELSE IF doc = 2 THEN 300 ELSE 7000]

\* content.slice(0, 500)
Preview(c) == [c EXCEPT !.length = Min(c.length, PreviewLength)]

\* The metadata the pipeline stores with the vector entry e.
Metadata(e) ==
    [policyId |-> e.policyId, stateName |-> StateName(e.policyId),
     pageNumber |-> e.chunkIndex + 1, chunkIndex |-> e.chunkIndex,
     content |-> Preview(ChunkContent(e.doc, e.chunkIndex))]

\* The id the relational store gives a PolicyChunk row created without one.
RowId(r) == <<"cuid", r.policyId, r.doc, r.chunkIndex>>

\* The PolicyChunk rows createMany writes for the n chunks of document j.
ChunkRows(p, j, n) ==
    {[policyId |-> p, chunkIndex |-> i, doc |-> j] : i \in 0..(n - 1)}

\* Mutant of BuildFilter: the state filter is never handed to the index.
BuildFilterDropped(stateFilter) == NoFilter

\* const filter = stateFilter ? {stateName: {$in: stateFilter}} : undefined
BuildFilter(stateFilter) ==
    IF stateFilter.given THEN [field |-> "stateName", anyOf |-> stateFilter.states]
    ELSE NoFilter

\* The index's own evaluation of a metadata filter on an entry.
PassesFilter(e, filter) ==
    \/ filter.field = "none"
    \/ /\ filter.field = "stateName"
       /\ Metadata(e).stateName \in filter.anyOf

\* What pineconeIndex.query can answer: the entries that pass the filter,
\* each with a score, the topK of them with the highest scores.
IndexReplies(index, topK, filter) ==
    LET passing == {e \in index : PassesFilter(e, filter)}
        k == Min(topK, Cardinality(passing))
    IN UNION {
         {{[id |-> e.id, score |-> score[e], metadata |-> Metadata(e)] : e \in kept} :
             kept \in {c \in SUBSET passing :
                         /\ Cardinality(c) = k
                         /\ \A near \in c, far \in passing \ c : score[far] <= score[near]}} :
         score \in [passing -> Scores]}

\* The sequences that hold every element of the set S once.
Orderings(S) ==
    {f \in [1..Cardinality(S) -> S] : \A i, j \in 1..Cardinality(S) : i # j => f[i] # f[j]}

\* .sort((a, b) => b.similarity - a.similarity): the sort is stable, so the
\* order of equal similarities is the order the index answered in.
SortedBySimilarity(S) ==
    {f \in Orderings(S) : \A i, j \in 1..Len(f) : i < j => f[i].similarity >= f[j].similarity}

\* Array.prototype.slice(0, n) for n >= 0
SliceTo(seq, n) == SubSeq(seq, 1, Min(n, Len(seq)))

\* Mutant of SliceLast: slice(0, n), the first n elements.
SliceFirst(seq, n) == SubSeq(seq, 1, IF Len(seq) > n THEN n ELSE Len(seq))

\* Array.prototype.slice(-n) for n > 0
SliceLast(seq, n) == SubSeq(seq, (IF Len(seq) > n THEN Len(seq) - n ELSE 0) + 1, Len(seq))

\* Mutant of Retained: the comparison with SIMILARITY_THRESHOLD is missing.
RetainedAnyScore(matches) == {m \in matches : m.score # NoScore}

\* .filter(match => match.score !== undefined && match.score >= SIMILARITY_THRESHOLD)
Retained(matches) ==
    {m \in matches : m.score # NoScore /\ m.score >= SIMILARITY_THRESHOLD}

\* .map(match => ({chunkId: String(match.id), ...}))
SearchResult(m) ==
    [chunkId |-> m.id, content |-> m.metadata.content,
     pageNumber |-> m.metadata.pageNumber, similarity |-> m.score,
     policyId |-> m.metadata.policyId, stateName |-> m.metadata.stateName]

\* The lists hybridSearch can return for the matches the index answered.
SearchResults(matches, topK) ==
    {SliceTo(f, topK) : f \in SortedBySimilarity({SearchResult(m) : m \in Retained(matches)})}

\* ------------------------------------------------ hybridSearch, ragQuery
\* Mutant of Raise: the catch block returns an empty list or response.
RaiseSwallowed(by) == rq' = [rq EXCEPT !.pc = "returned", !.fault = by]

\* The collaborator named by has thrown: hybridSearch rethrows as "Search
\* failed", which ragQuery catches and rethrows as "Failed to generate
\* answer".
Raise(by) ==
    rq' = [rq EXCEPT !.pc = "raised", !.fault = by,
                     !.error = IF rq.op = "search" THEN "Search failed"
                               ELSE "Failed to generate answer"]

\* Mutant of HybridSearchCall: a search takes the worker's flag, as if it
\* were a job of the queue.
HybridSearchCallFlagged(stateFilter, topK) ==
    /\ rq.pc \in {"idle", "returned", "raised"}
    /\ rq' = [IdleRq EXCEPT !.op = "search", !.pc = "embed",
                            !.stateFilter = stateFilter, !.topK = topK]
    /\ isProcessing' = TRUE
    /\ UNCHANGED <<store, jobQueue, worker, jobs, del, started, finished, hist,
                   gw, fx, parked>>

\* hybridSearch(query, stateFilter, topK), up to await generateEmbedding(query)
HybridSearchCall(stateFilter, topK) ==
    /\ rq.pc \in {"idle", "returned", "raised"}
    /\ rq' = [IdleRq EXCEPT !.op = "search", !.pc = "embed",
                            !.stateFilter = stateFilter, !.topK = topK]
    /\ UNCHANGED <<store, ingest, gw, fx, parked>>

\* ragQuery(query, stateFilter, history), up to the first await of
\* hybridSearch(query, stateFilter), whose topK is the default
RagQueryCall(stateFilter, history) ==
    /\ rq.pc \in {"idle", "returned", "raised"}
    /\ rq' = [IdleRq EXCEPT !.op = "rag", !.pc = "embed",
                            !.stateFilter = stateFilter, !.topK = TOP_K_RESULTS,
                            !.history = history]
    /\ UNCHANGED <<store, ingest, gw, fx, parked>>

\* Mutant of Embed: queryVectors is called for topK candidates, without the
\* over-fetch.
EmbedSingleFetch(ok) ==
    /\ rq.pc = "embed"
    /\ IF ok
       THEN rq' = [rq EXCEPT !.pc = "query", !.filter = BuildFilter(rq.stateFilter),
                             !.asked = rq.topK]
       ELSE Raise("embedder")
    /\ UNCHANGED <<store, ingest, gw, fx, parked>>

\* generateEmbedding answers; the filter is built and queryVectors is called
\* for topK * 2 candidates
Embed(ok) ==
    /\ rq.pc = "embed"
    /\ IF ok
       THEN rq' = [rq EXCEPT !.pc = "query", !.filter = BuildFilter(rq.stateFilter),
                             !.asked = rq.topK * 2]
       ELSE Raise("embedder")
    /\ UNCHANGED <<store, ingest, gw, fx, parked>>

\* const content = fullChunk?.content || result.content
ContentFor(result, fullChunks) ==
    LET found == {c \in fullChunks : RowId(c) = result.chunkId}
    IN IF found # {}
       THEN LET c == CHOOSE c \in found : TRUE IN ChunkContent(c.doc, c.chunkIndex)
       ELSE result.content

\* The response of ragQuery when the search found nothing.
NothingFound ==
    [answer |-> "couldNotFind", confidence |-> <<0, 1>>, citations |-> <<>>,
     suggestedQueries |-> <<"liveVideo", "storeAndForward", "consent">>]

\* Mutant of QueryIndex: if (searchResults.length === 0) return {...} is
\* missing from ragQuery.
QueryIndexNoEarlyReturn(ok) ==
    /\ rq.pc = "query"
    /\ IF ~ok THEN Raise("index")
       ELSE \E matches \in IndexReplies(vectorIndex, rq.asked, rq.filter) :
            \E results \in SearchResults(matches, rq.topK) :
              IF rq.op = "search"
              THEN rq' = [rq EXCEPT !.pc = "returned", !.matches = matches,
                                    !.results = results]
              ELSE rq' = [rq EXCEPT !.pc = "hydrate", !.matches = matches,
                                    !.results = results, !.reads = rq.reads + 1]
    /\ UNCHANGED <<store, ingest, gw, fx, parked>>

\* queryVectors answers with some matches; hybridSearch filters, maps, sorts and
\* slices them and returns.  ragQuery then returns at once when the list is
\* empty and calls prisma.policyChunk.findMany otherwise.
QueryIndex(ok) ==
    /\ rq.pc = "query"
    /\ IF ~ok THEN Raise("index")
       ELSE \E matches \in IndexReplies(vectorIndex, rq.asked, rq.filter) :
            \E results \in SearchResults(matches, rq.topK) :
              IF rq.op = "search"
              THEN rq' = [rq EXCEPT !.pc = "returned", !.matches = matches,
                                    !.results = results]
              ELSE IF Len(results) = 0
              THEN rq' = [rq EXCEPT !.pc = "returned", !.matches = matches,
                                    !.results = results, !.response = NothingFound]
              ELSE rq' = [rq EXCEPT !.pc = "hydrate", !.matches = matches,
                                    !.results = results, !.reads = rq.reads + 1]
    /\ UNCHANGED <<store, ingest, gw, fx, parked>>

\* The messages ragQuery passes to generateChatCompletion.
Messages(results, fullChunks, history) ==
    LET context == [i \in 1..Len(results) |->
                      [n |-> i, stateName |-> results[i].stateName,
                       pageNumber |-> results[i].pageNumber,
                       content |-> ContentFor(results[i], fullChunks)]]
        trimmedHistory == SliceLast(history, HistoryLimit)
    IN <<[role |-> "system", content |-> "systemPrompt"]>>
       \o [i \in 1..Len(trimmedHistory) |->
              [role |-> "turn", content |-> trimmedHistory[i]]]
       \o <<[role |-> "user", content |-> [context |-> context, question |-> "query"]]>>

\* findMany answers with the rows whose id is one of the chunkIds; the
\* context and the prompts are built and generateChatCompletion is called
Hydrate(ok) ==
    /\ rq.pc = "hydrate"
    /\ IF ok
       THEN LET chunkIds == {rq.results[i].chunkId : i \in 1..Len(rq.results)}
                fullChunks == {c \in policyChunk : RowId(c) \in chunkIds}
            IN rq' = [rq EXCEPT !.pc = "generate", !.fullChunks = fullChunks,
                                !.messages = Messages(rq.results, fullChunks, rq.history),
                                !.generations = rq.generations + 1]
       ELSE Raise("store")
    /\ UNCHANGED <<store, ingest, gw, fx, parked>>

RECURSIVE SumSimilarity(_)
SumSimilarity(results) ==
    IF results = <<>> THEN 0
    ELSE Head(results).similarity + SumSimilarity(Tail(results))

\* Mutant of Confidence: avgSimilarity * 1.2 without Math.min(..., 1.0).
ConfidenceUnclamped(results) ==
    <<SumSimilarity(results) * 12, Len(results) * 1000>>

\* Math.min(avgSimilarity * 1.2, 1.0) as a fraction <<numerator, denominator>>:
\* the average is sum / length hundredths, and 1.2 is 12 / 10.
Confidence(results) ==
    LET scaled == <<SumSimilarity(results) * 12, Len(results) * 1000>>
    IN IF scaled[1] < scaled[2] THEN scaled ELSE <<1, 1>>

\* generateChatCompletion answers; the confidence and the citations are
\* computed and ragQuery returns
Generate(ok) ==
    /\ rq.pc = "generate"
    /\ IF ok
       THEN rq' = [rq EXCEPT !.pc = "returned",
                     !.response =
                        [answer |-> "generated",
                         confidence |-> Confidence(rq.results),
                         citations |-> [i \in 1..Len(rq.results) |->
                             [content |-> ContentFor(rq.results[i], rq.fullChunks),
                              pageNumber |-> rq.results[i].pageNumber,
                              stateName |-> rq.results[i].stateName]],
                         suggestedQueries |-> <<>>]]
       ELSE Raise("generation")
    /\ UNCHANGED <<store, ingest, gw, fx, parked>>

\* The store after the pipeline has run: policy p1 has been ingested from
\* document 1; policy p2 has not been ingested, or has been from document 2,
\* or has been and then lost its rows to a deletePolicy whose vector cleanup
\* failed.
CompletedPolicy == [exists |-> TRUE, status |-> "completed", processedAt |-> 1]

RetrievalInit ==
    /\ \E n1 \in 1..MaxChunks, n2 \in 0..MaxChunks, orphaned \in BOOLEAN :
          /\ orphaned => n2 = MaxChunks
          /\ policy = [p \in PolicyIds |->
                        IF p = "p1" \/ (n2 > 0 /\ ~orphaned) THEN CompletedPolicy
                        ELSE AbsentPolicy]
          /\ vectorIndex = Entries([policyId |-> "p1", id |-> 1], n1)
                           \cup Entries([policyId |-> "p2", id |-> 2], n2)
          /\ policyChunk = ChunkRows("p1", 1, n1)
                           \cup (IF orphaned THEN {} ELSE ChunkRows("p2", 2, n2))
    /\ policyFact = {}
    /\ clock = 1
    /\ jobQueue = <<>>
    /\ isProcessing = FALSE
    /\ worker = [w \in JobIds |-> IdleWorker]
    /\ jobs = [j \in JobIds |-> NoJob]
    /\ del = [d \in 1..MaxDeletes |-> [pc |-> "none", policyId |-> "p1", ids |-> {}]]
    /\ started = <<>>
    /\ stepsDone = [j \in JobIds |-> <<>>]
    /\ failedAt = [j \in JobIds |-> "none"]
    /\ statusWrites = [j \in JobIds |-> <<>>]
    /\ unlinkCount = [j \in JobIds |-> 0]
    /\ finished = [j \in JobIds |-> FALSE]
    /\ notFound = [j \in JobIds |-> FALSE]
    /\ fileReads = [j \in JobIds |-> 0]
    /\ rq = IdleRq
    /\ gw = IdleGw
    /\ fx = IdleFx
    /\ parked = IdleRq

Histories == {[i \in 1..n |-> i] : n \in 0..MaxHistory}

RetrievalNext ==
    \/ \E f \in StateFilters, k \in 0..MaxTopK : HybridSearchCall(f, k)
    \/ \E f \in StateFilters, h \in Histories : RagQueryCall(f, h)
    \/ \E ok \in BOOLEAN : Embed(ok)
    \/ \E ok \in BOOLEAN : QueryIndex(ok)
    \/ \E ok \in BOOLEAN : Hydrate(ok)
    \/ \E ok \in BOOLEAN : Generate(ok)

RetrievalSpec == RetrievalInit /\ [][RetrievalNext]_vars

\* The list a returned call of hybridSearch gave its caller.
Returned == rq.op = "search" /\ rq.pc = "returned"

\* C11: every element of a list that search returned has similarity at
\* least 0.7, the list is in non-increasing order of similarity, and it is
\* no longer than topK.
C11_ThresholdOrderLength ==
    Returned =>
        /\ \A i \in 1..Len(rq.results) : rq.results[i].similarity >= 70
        /\ \A i \in 1..(Len(rq.results) - 1) :
              rq.results[i].similarity >= rq.results[i + 1].similarity
        /\ Len(rq.results) <= rq.topK

\* The index answered with two matches above the threshold and search, asked
\* for one result, returned the better of them alone.
C11_Witness ==
    /\ Returned
    /\ rq.topK = 1
    /\ {m.score : m \in rq.matches} = {70, 100}
    /\ Len(rq.results) = 1
    /\ rq.results[1].similarity = 100

\* C12: every result of a search called with a state filter has a stateName
\* of the filter set, and a search called without one hands the index no
\* filter at all.
C12_StateFilter ==
    /\ (Returned /\ rq.stateFilter.given) =>
          \A i \in 1..Len(rq.results) : rq.results[i].stateName \in rq.stateFilter.states
    /\ (rq.op = "search" /\ rq.pc \in {"query", "returned"} /\ ~rq.stateFilter.given) =>
          rq.filter = NoFilter

\* A search for Texas returned a hit while the index held an entry of Ohio.
C12_Witness ==
    /\ Returned
    /\ rq.stateFilter = [given |-> TRUE, states |-> {"Texas"}]
    /\ Len(rq.results) = 1
    /\ \E e \in vectorIndex : Metadata(e).stateName = "Ohio"

SearchReturned ==
    /\ rq.op = "rag"
    /\ rq.pc \in {"hydrate", "generate", "returned", "raised"}
    /\ rq.fault \notin {"embedder", "index"}

\* C14: when the search inside ragQuery has returned no hit, ragQuery has
\* returned without raising, without a read of the relational store and
\* without a call of generation; its confidence is 0, its citations are
\* empty and it suggests at least one query.
C14_ZeroHits ==
    (SearchReturned /\ rq.results = <<>>) =>
        /\ rq.pc = "returned"
        /\ rq.fault = "none"
        /\ rq.reads = 0
        /\ rq.generations = 0
        /\ rq.response.confidence[1] = 0
        /\ rq.response.citations = <<>>
        /\ Len(rq.response.suggestedQueries) > 0

\* ragQuery returned for a reply of the index that held matches, none of
\* which reached the threshold.
C14_Witness ==
    /\ rq.op = "rag" /\ rq.pc = "returned"
    /\ rq.matches # {}
    /\ rq.results = <<>>
    /\ rq.response = NothingFound

\* A call of ragQuery has returned an answer made from retained results.
Answered == rq.op = "rag" /\ rq.pc = "returned" /\ rq.results # <<>>

\* C15: the confidence of an answer is the smaller of 1 and 1.2 times the
\* mean of the retained similarities, so it is never more than 1.  With the
\* similarities in hundredths and the confidence a fraction c[1] / c[2],
\* 1.2 times the mean is (12 * sum) / (1000 * n).
C15_ConfidenceClamped ==
    Answered =>
        LET c == rq.response.confidence
            sum == SumSimilarity(rq.results)
            n == Len(rq.results)
        IN /\ c[2] > 0
           /\ c[1] <= c[2]
           /\ IF 12 * sum <= 1000 * n
              THEN c[1] * 1000 * n = 12 * sum * c[2]
              ELSE c[1] = c[2]

\* Two results of similarity 1.00 and 0.70 were retained: their mean 0.85 is
\* above 0.833 and the confidence is 1.
C15_Witness ==
    /\ Answered
    /\ Len(rq.results) = 2
    /\ rq.results[1].similarity = 100
    /\ rq.results[2].similarity = 70
    /\ rq.response.confidence = <<1, 1>>

\* ragQuery has called generateChatCompletion.
GenerationCalled == rq.op = "rag" /\ rq.generations = 1

\* C16: the messages passed to generation are the system prompt, then the
\* last min(10, n) turns of the n-turn history in their order, then one user
\* turn with the context (one block per result) and the question.
C16_HistoryWindow ==
    GenerationCalled =>
        LET n == Len(rq.history)
            k == IF n < 10 THEN n ELSE 10
            m == rq.messages
        IN /\ Len(m) = k + 2
           /\ m[1] = [role |-> "system", content |-> "systemPrompt"]
           /\ \A i \in 1..k : m[1 + i] = [role |-> "turn", content |-> rq.history[n - k + i]]
           /\ m[k + 2].role = "user"
           /\ m[k + 2].content.question = "query"
           /\ Len(m[k + 2].content.context) = Len(rq.results)

\* Generation was called with a history of eleven turns: the second message
\* is turn 2 and the eleventh is turn 11.
C16_Witness ==
    /\ GenerationCalled
    /\ Len(rq.history) = 11
    /\ rq.messages[2].content = 2
    /\ rq.messages[11].content = 11

\* The PolicyChunk rows of the chunk that the search result r came from.
RowsOfHit(r) ==
    {c \in policyChunk : VectorId(c.policyId, c.chunkIndex) = r.chunkId}

\* C17: for every hit whose PolicyChunk row exists, the content in the
\* context block passed to generation, and in the citation returned, is the
\* whole content of that row.
C17_ContextIsFullContent ==
    GenerationCalled =>
        \A i \in 1..Len(rq.results) : \A c \in RowsOfHit(rq.results[i]) :
            LET user == rq.messages[Len(rq.messages)]
            IN /\ user.content.context[i].content = ChunkContent(c.doc, c.chunkIndex)
               /\ rq.pc = "returned" =>
                     rq.response.citations[i].content = ChunkContent(c.doc, c.chunkIndex)

\* ----------------------------------------------------- the index gateway
\* upsertVectors and deletePolicyVectors (lib/pinecone.ts) called directly,
\* one call at a time, as the re-embedding script does.

\* ---------------------------------------------------------------- bounds
MaxBatch == 2       \* entries in one ordinary call of upsertVectors
MaxUpserts == 2     \* calls of upsertVectors in one behaviour

\* ------------------------------------------------------ program constants
VECTOR_DIMENSIONS == 768

\* The vectors of a call of upsertVectors: the first n chunks of version doc
\* of policyId's document, the one at badAt with a vector of badLength
\* numbers and every other with VECTOR_DIMENSIONS.
BatchVectors(b) ==
    {[id |-> VectorId(b.policyId, i), policyId |-> b.policyId, chunkIndex |-> i,
      doc |-> b.doc,
      dim |-> IF i = b.badAt THEN b.badLength ELSE VECTOR_DIMENSIONS] : i \in 0..(b.n - 1)}

\* What a caller passes: an ordinary batch, well-formed or with a vector
\* one number short at its start or one number long at its end, and the
\* batch of a document with one chunk more than the ceiling of the
\* enumerating query of deletePolicyVectors.
Batches ==
    {[policyId |-> p, doc |-> v, n |-> n, badAt |-> -1, badLength |-> 0] :
        p \in PolicyIds, v \in 1..2, n \in 1..MaxBatch}
    \cup {[policyId |-> p, doc |-> v, n |-> n, badAt |-> 0,
           badLength |-> VECTOR_DIMENSIONS - 1] :
            p \in PolicyIds, v \in 1..2, n \in 1..MaxBatch}
    \cup {[policyId |-> p, doc |-> v, n |-> n, badAt |-> n - 1,
           badLength |-> VECTOR_DIMENSIONS + 1] :
            p \in PolicyIds, v \in 1..2, n \in 1..MaxBatch}
    \cup {[policyId |-> "p1", doc |-> 1, n |-> TopKCeiling + 1, badAt |-> -1,
           badLength |-> 0]}

\* The index was created with dimension: VECTOR_DIMENSIONS and refuses a
\* request that holds a vector of another length.
IndexAccepts(vectors) == \A v \in vectors : v.dim = VECTOR_DIMENSIONS

\* No call of deletePolicyVectors is between its query and its deleteMany.
NoDeleteInFlight == \A d \in 1..MaxDeletes : del[d].pc \notin {"query", "deleteMany"}

\* The calls of upsertVectors made once batch b has been passed: the batch
\* of the large document is the only one of its behaviour.
CallsAfter(b) == IF b.n > MaxBatch THEN MaxUpserts ELSE gw.calls + 1

\* Mutant of UpsertVectors: every vector is cut or padded to
\* VECTOR_DIMENSIONS numbers before it goes to the index.
UpsertVectorsFitted(b, ok) ==
    /\ gw.calls < MaxUpserts
    /\ NoDeleteInFlight
    /\ b.n > MaxBatch => gw.calls = 0
    /\ LET fitted == {[v EXCEPT !.dim = VECTOR_DIMENSIONS] : v \in BatchVectors(b)}
       IN IF ok /\ IndexAccepts(fitted)
          THEN /\ vectorIndex' = upsertVectors(vectorIndex, fitted)
               /\ gw' = [pc |-> "returned", batch |-> b, calls |-> CallsAfter(b)]
          ELSE /\ vectorIndex' = vectorIndex
               /\ gw' = [pc |-> "raised", batch |-> b, calls |-> CallsAfter(b)]
    /\ UNCHANGED <<policy, policyChunk, policyFact, clock, ingest, rq, fx, parked>>

\* upsertVectors(vectors): await pineconeIndex.upsert(vectors); an error is
\* logged and thrown again.  The vectors go to the index as they came.
UpsertVectors(b, ok) ==
    /\ gw.calls < MaxUpserts
    /\ NoDeleteInFlight
    /\ b.n > MaxBatch => gw.calls = 0
    /\ IF ok /\ IndexAccepts(BatchVectors(b))
       THEN /\ vectorIndex' = upsertVectors(vectorIndex, BatchVectors(b))
            /\ gw' = [pc |-> "returned", batch |-> b, calls |-> CallsAfter(b)]
       ELSE /\ vectorIndex' = vectorIndex
            /\ gw' = [pc |-> "raised", batch |-> b, calls |-> CallsAfter(b)]
    /\ UNCHANGED <<policy, policyChunk, policyFact, clock, ingest, rq, fx, parked>>

\* deletePolicyEmbeddings(policyId) -> deletePolicyVectors(policyId), up to
\* its await of the enumerating query
DeleteVectorsCall(d, p) ==
    /\ del[d].pc = "none"
    /\ \A e \in 1..(d - 1) : del[e].pc \notin {"none", "query", "deleteMany"}
    /\ del' = [del EXCEPT ![d] = [pc |-> "query", policyId |-> p, ids |-> {}]]
    /\ UNCHANGED <<calls, store, jobQueue, isProcessing, worker, jobs, started, finished, hist>>

GatewayInit ==
    /\ policy = [p \in PolicyIds |-> CompletedPolicy]
    /\ policyChunk = {}
    /\ policyFact = {}
    /\ vectorIndex = {}
    /\ clock = 1
    /\ jobQueue = <<>>
    /\ isProcessing = FALSE
    /\ worker = [w \in JobIds |-> IdleWorker]
    /\ jobs = [j \in JobIds |-> NoJob]
    /\ del = [d \in 1..MaxDeletes |-> [pc |-> "none", policyId |-> "p1", ids |-> {}]]
    /\ started = <<>>
    /\ stepsDone = [j \in JobIds |-> <<>>]
    /\ failedAt = [j \in JobIds |-> "none"]
    /\ statusWrites = [j \in JobIds |-> <<>>]
    /\ unlinkCount = [j \in JobIds |-> 0]
    /\ finished = [j \in JobIds |-> FALSE]
    /\ notFound = [j \in JobIds |-> FALSE]
    /\ fileReads = [j \in JobIds |-> 0]
    /\ rq = IdleRq
    /\ gw = IdleGw
    /\ fx = IdleFx
    /\ parked = IdleRq

GatewayNext ==
    \/ \E b \in Batches, ok \in BOOLEAN : UpsertVectors(b, ok)
    \/ \E d \in 1..MaxDeletes, p \in PolicyIds : DeleteVectorsCall(d, p)
    \/ \E d \in 1..MaxDeletes, ok \in BOOLEAN : DeleteQuery(d, ok)
    \/ \E d \in 1..MaxDeletes, ok \in BOOLEAN : DeleteMany(d, ok)

GatewaySpec == GatewayInit /\ [][GatewayNext]_vars

\* A call of upsertVectors has returned in this step.
UpsertReturns == gw'.calls > gw.calls /\ gw'.pc = "returned"

\* id is the id of one of the vectors of batch b.
IdPassed(id, b) == id[1] = b.policyId /\ id[2] = "chunk" /\ id[3] \in 0..(b.n - 1)

\* C18: when a call of upsertVectors has returned, the index holds for each
\* id of the call exactly the entry passed for it, whatever it held for that
\* id before, and every other entry as before; when it already held exactly
\* those entries, it is unchanged.
C18_UpsertIdempotent ==
    [][UpsertReturns =>
          LET passed == BatchVectors(gw'.batch)
          IN /\ {e \in vectorIndex' : IdPassed(e.id, gw'.batch)} = passed
             /\ {e \in vectorIndex' : ~IdPassed(e.id, gw'.batch)}
                   = {e \in vectorIndex : ~IdPassed(e.id, gw'.batch)}
             /\ passed \subseteq vectorIndex => vectorIndex' = vectorIndex]_vars

\* Version 2 of p1's first chunk was upserted over version 1.
C18_Witness ==
    /\ gw.pc = "returned" /\ gw.calls = 2
    /\ gw.batch.policyId = "p1" /\ gw.batch.doc = 2
    /\ Cardinality({e \in vectorIndex : e.policyId = "p1"}) = 2
    /\ \E e \in vectorIndex : e.id = VectorId("p1", 0) /\ e.doc = 2
    /\ \E e \in vectorIndex : e.id = VectorId("p1", 1) /\ e.doc = 1

\* The entries a query restricted by the filter policyId = p can return.
EntriesOf(index, p) == {e \in index : e.policyId = p}

\* Call d of deletePolicyVectors returns in this step without an error.
DeleteReturns(d) == del[d].pc \in {"query", "deleteMany"} /\ del'[d].pc = "done"

UpsertEnds == gw'.calls > gw.calls

\* C20: a call of upsertVectors with a vector whose length is not 768 raises
\* and leaves the index as it was; a call that returns has stored every
\* vector with the length it came with.
C20_WrongLengthRejected ==
    [][UpsertEnds =>
          LET passed == BatchVectors(gw'.batch)
          IN /\ (\E v \in passed : v.dim # 768) =>
                   /\ gw'.pc = "raised"
                   /\ vectorIndex' = vectorIndex
             /\ gw'.pc = "returned" => passed \subseteq vectorIndex']_vars

\* A batch of two vectors, the second of 769 numbers, was refused, and the
\* first of them is not in the index either.
C20_Witness ==
    /\ gw.pc = "raised"
    /\ gw.batch.n = 2 /\ gw.batch.badAt = 1 /\ gw.batch.badLength = 769
    /\ EntriesOf(vectorIndex, gw.batch.policyId) = {}

\* ------------------------------------------------- deletePolicy: the order
\* The deletePolicy calls that have deleted the relational row.
PastRelationalDelete(d) == del[d].pc \in {"query", "deleteMany", "done"}

\* C21: deletePolicy removes vector entries only after its relational delete
\* has gone through and cascaded: a step of a call that changes the index
\* finds no Policy row and no chunk or fact row of that policy; a call whose
\* relational delete rejected stops there, with the index and the rows as
\* they were; and wherever a call stands after its relational delete, no chunk
\* row of its policy is left, so none lacks a vector entry the call removed.
C21_RelationalBeforeVectors ==
    /\ [](\A d \in 1..MaxDeletes :
            PastRelationalDelete(d) =>
                /\ ~policy[del[d].policyId].exists
                /\ RowsOf(del[d].policyId) = {}
                /\ FactsOf(del[d].policyId) = {})
    /\ [][\A d \in 1..MaxDeletes :
            /\ (del'[d] # del[d] /\ vectorIndex' # vectorIndex) =>
                  /\ PastRelationalDelete(d)
                  /\ RowsOf(del[d].policyId) = {}
                  /\ \A e \in vectorIndex \ vectorIndex' : e.policyId = del[d].policyId
                  /\ vectorIndex' \subseteq vectorIndex
            /\ (del[d].pc = "none" /\ del'[d].pc = "failed") =>
                  UNCHANGED <<store>>
            /\ del[d].pc \in {"failed", "done"} => del'[d] = del[d]]_vars

\* A deletePolicy call has returned for a policy whose document a job had
\* embedded: the entries that job upserted are gone from the index.
C21_Witness ==
    \E d \in 1..MaxDeletes, j \in JobIds :
        /\ del[d].pc = "done"
        /\ jobs[j] # NoJob
        /\ jobs[j].policyId = del[d].policyId
        /\ "processPDF" \in {stepsDone[j][i] : i \in 1..Len(stepsDone[j])}
        /\ \A e \in vectorIndex : e.policyId # del[d].policyId

\* ------------------------------------------------------ extractPolicyFacts
MaxFactChunks == 2  \* chunk rows of the policy whose facts are extracted
MaxRuns == 2        \* calls of extractPolicyFacts in one behaviour of FactsSpec

TextBudget == 12000         \* fullText.slice(0, 12000)
DefaultConfidence == 50     \* fact.confidence || 0.5, in hundredths

\* A text is a sequence of pieces, each a run of characters of one source.
Newline == [text |-> <<0, 0>>, length |-> 1]

\* policy.chunks.map((c) => c.content).join("\n") for the rows in the order
\* the store returned them.
FullText(rows) ==
    IF Len(rows) = 0 THEN <<>>
    ELSE [k \in 1..(2 * Len(rows) - 1) |->
            IF k % 2 = 1
            THEN ChunkContent(rows[(k + 1) \div 2].doc, rows[(k + 1) \div 2].chunkIndex)
            ELSE Newline]

\* The characters before piece k of a text.
RECURSIVE LengthBefore(_, _)
LengthBefore(text, k) ==
    IF k = 1 THEN 0 ELSE LengthBefore(text, k - 1) + text[k - 1].length

\* String.prototype.slice(0, n): the pieces that begin before character n,
\* the last of them cut where the n characters end.
TextSlice(text, n) ==
    LET kept == {k \in 1..Len(text) : LengthBefore(text, k) < n}
    IN [k \in 1..Cardinality(kept) |->
          [text[k] EXCEPT !.length = Min(text[k].length, n - LengthBefore(text, k))]]

\* The orders in which findUnique({include: {chunks: true}}) can return the
\* chunk rows of policy p: the include has no orderBy, so any.
IncludedChunks(p) == Orderings(RowsOf(p))

\* A fact as the model writes it: confidence is given or left out.
Given(c) == [given |-> TRUE, value |-> c]
Omitted == [given |-> FALSE, value |-> 0]
Fact(name, confidence) == [name |-> name, confidence |-> confidence]
NoFact == Fact("none", Omitted)

\* A reply is a sequence of tokens: text without braces, an opening brace, a
\* closing brace, or the text of one fact inside a facts array.
Text == [t |-> "text", fact |-> NoFact]
Open == [t |-> "open", fact |-> NoFact]
Close == [t |-> "close", fact |-> NoFact]

\* The text of the object {"facts": [...]} with these facts.
Object(facts) == <<Open>> \o [i \in 1..Len(facts) |-> [t |-> "fact", fact |-> facts[i]]] \o <<Close>>

\* The replies the generation can give: prose only; braces that enclose
\* nothing; a span that is not JSON; an object without facts; objects with
\* facts, alone, inside prose, and followed by prose with a closing brace.
Replies ==
    {<<Text>>,
     <<Close, Text, Open>>,
     <<Open, Text, Close>>,
     Object(<<>>),
     Object(<<Fact("a", Given(90))>>),
     Object(<<Fact("a", Given(0)), Fact("b", Omitted)>>),
     <<Text>> \o Object(<<Fact("a", Given(100))>>) \o <<Text>>,
     Object(<<Fact("a", Given(90))>>) \o <<Text, Close, Text>>}

\* extractionRaw.match(/\{[\s\S]*\}/): the pattern is greedy, so the match
\* runs from the first opening brace to the last closing brace after it;
\* the empty sequence stands for no match.
MatchSpan(out) ==
    LET opens == {i \in 1..Len(out) : out[i].t = "open"}
        first == CHOOSE i \in opens : \A j \in opens : i <= j
        closes == {i \in 1..Len(out) : out[i].t = "close" /\ i > first}
    IN IF opens = {} THEN <<>>
       ELSE IF closes = {} THEN <<>>
       ELSE SubSeq(out, first, CHOOSE i \in closes : \A j \in closes : i >= j)

\* JSON.parse accepts the span: one object, with nothing but facts inside.
IsJson(span) ==
    /\ Len(span) >= 2
    /\ span[1].t = "open"
    /\ span[Len(span)].t = "close"
    /\ \A i \in 2..(Len(span) - 1) : span[i].t = "fact"

\* Mutant of ParsedResult: the try around JSON.parse is missing, so a span
\* that is not JSON raises.
ParsedResultUnguarded(out) ==
    LET span == MatchSpan(out)
    IN [raised |-> span # <<>> /\ ~IsJson(span),
        facts |-> IF span # <<>> /\ IsJson(span)
                  THEN [i \in 1..(Len(span) - 2) |-> span[i + 1].fact]
                  ELSE <<>>]

\* result after the match and the guarded JSON.parse: the facts of the span
\* when it parses, none when nothing matched or when the parse threw, which
\* the inner catch turns into a warning.
ParsedResult(out) ==
    LET span == MatchSpan(out)
    IN [raised |-> FALSE,
        facts |-> IF span # <<>> /\ IsJson(span)
                  THEN [i \in 1..(Len(span) - 2) |-> span[i + 1].fact]
                  ELSE <<>>]

\* confidence: fact.confidence || 0.5
StoredConfidence(f) ==
    IF f.confidence.given /\ f.confidence.value # 0
    THEN f.confidence.value
    ELSE DefaultConfidence

\* The id the relational store gives the next PolicyFact row.
NextFactId == Cardinality(policyFact) + 1

\* prisma.policyFact.create({data: {policyId, category, field, value,
\* confidence, ...}}) for fact f of policy p
FactRow(p, f) ==
    [id |-> NextFactId, policyId |-> p, name |-> f.name,
     confidence |-> StoredConfidence(f)]

\* extractPolicyFacts(policyId) called from outside the queue.
ExtractCall(p) ==
    /\ fx.pc \in {"idle", "returned", "raised"}
    /\ Len(fx.history) < MaxRuns
    /\ fx' = [IdleFx EXCEPT !.pc = "load", !.policyId = p, !.history = fx.history]
    /\ UNCHANGED <<store, ingest, rq, gw, parked>>

\* The call, its locals being f, is over: it returned, or it raised (the
\* outer catch rethrows); processQueue, when it is the caller, goes on to its
\* status update or to its catch block.
ExtractEnds(f, raised) ==
    /\ fx' = [f EXCEPT !.pc = IF raised THEN "raised" ELSE "returned",
                       !.history = Append(@, [policyId |-> f.policyId,
                                              caller |-> f.caller,
                                              reply |-> f.reply,
                                              created |-> f.created,
                                              raised |-> raised])]
    /\ IF f.caller = 0
       THEN UNCHANGED <<worker, stepsDone, failedAt>>
       ELSE /\ worker' = [worker EXCEPT ![f.caller].pc =
                              IF raised THEN "catch" ELSE "updateCompleted"]
            /\ stepsDone' = [stepsDone EXCEPT ![worker[f.caller].job.id] =
                                IF raised THEN @ ELSE Append(@, "extractFacts")]
            /\ failedAt' = [failedAt EXCEPT ![worker[f.caller].job.id] =
                               IF raised THEN "extractFacts" ELSE @]

\* await prisma.policy.findUnique({include: {chunks: true, state: true}});
\* if (!policy) throw; fullText and its slice are computed at once.
ExtractLoad(ok) ==
    /\ fx.pc = "load"
    /\ IF ok /\ policy[fx.policyId].exists
       THEN /\ \E rows \in IncludedChunks(fx.policyId) :
                  fx' = [fx EXCEPT !.pc = "generate",
                                   !.sent = TextSlice(FullText(rows), TextBudget)]
            /\ UNCHANGED <<worker, stepsDone, failedAt>>
       ELSE ExtractEnds(fx, TRUE)
    /\ UNCHANGED <<store, jobQueue, isProcessing, jobs, del, started, finished,
                   statusWrites, unlinkCount, notFound, fileReads, rq, gw, parked>>

\* await generateChatCompletion([...]), then the match and the parse; with
\* no facts to store the call returns.
ExtractGenerate(ok, out) ==
    /\ fx.pc = "generate"
    /\ ok \/ out = <<Text>>
    /\ LET result == ParsedResult(out)
           f == [fx EXCEPT !.generations = @ + 1,
                           !.reply = IF ok THEN out ELSE <<>>,
                           !.facts = IF ok THEN result.facts ELSE <<>>,
                           !.next = 1]
       IN IF ~ok \/ result.raised
          THEN ExtractEnds(f, TRUE)
          ELSE IF result.facts = <<>>
          THEN ExtractEnds(f, FALSE)
          ELSE /\ fx' = [f EXCEPT !.pc = "store"]
               /\ UNCHANGED <<worker, stepsDone, failedAt>>
    /\ UNCHANGED <<store, jobQueue, isProcessing, jobs, del, started, finished,
                   statusWrites, unlinkCount, notFound, fileReads, rq, gw, parked>>

\* Mutant of ExtractStore: the fact is upserted by policy and name, so a row
\* that has them is superseded.
ExtractStoreSuperseding(ok) ==
    /\ fx.pc = "store"
    /\ LET fact == fx.facts[fx.next]
       IN IF ok /\ ForeignKeyHolds(fx.policyId)
          THEN /\ policyFact' =
                     {r \in policyFact : ~(r.policyId = fx.policyId /\ r.name = fact.name)}
                     \cup {FactRow(fx.policyId, fact)}
               /\ IF fx.next = Len(fx.facts)
                  THEN ExtractEnds([fx EXCEPT !.created = @ + 1], FALSE)
                  ELSE /\ fx' = [fx EXCEPT !.next = @ + 1, !.created = @ + 1]
                       /\ UNCHANGED <<worker, stepsDone, failedAt>>
          ELSE /\ policyFact' = policyFact
               /\ ExtractEnds(fx, TRUE)
    /\ UNCHANGED <<policy, policyChunk, vectorIndex, clock, jobQueue, isProcessing,
                   jobs, del, started, finished, statusWrites, unlinkCount,
                   notFound, fileReads, rq, gw, parked>>

\* for (const fact of result.facts) await prisma.policyFact.create(...):
\* one create, and then the next fact or the return.
ExtractStore(ok) ==
    /\ fx.pc = "store"
    /\ LET fact == fx.facts[fx.next]
       IN IF ok /\ ForeignKeyHolds(fx.policyId)
          THEN /\ policyFact' = policyFact \cup {FactRow(fx.policyId, fact)}
               /\ IF fx.next = Len(fx.facts)
                  THEN ExtractEnds([fx EXCEPT !.created = @ + 1], FALSE)
                  ELSE /\ fx' = [fx EXCEPT !.next = @ + 1, !.created = @ + 1]
                       /\ UNCHANGED <<worker, stepsDone, failedAt>>
          ELSE /\ policyFact' = policyFact
               /\ ExtractEnds(fx, TRUE)
    /\ UNCHANGED <<policy, policyChunk, vectorIndex, clock, jobQueue, isProcessing,
                   jobs, del, started, finished, statusWrites, unlinkCount,
                   notFound, fileReads, rq, gw, parked>>

\* The job of QueueSpec that has p1 for its policy and a buffer for payload.
BufferJob ==
    [id |-> 1, policyId |-> "p1", buffer |-> TRUE, filePath |-> NoPath,
     deleteFileAfter |-> FALSE]

\* Policy p1 has the chunk rows of one document, of 2000 or of 7000
\* characters each.  Either it is completed and
\* extractPolicyFacts is called from outside the queue, or job 1 of the queue
\* has just written the rows and calls it.
FactsInit ==
    /\ \E doc \in {1, 3}, n \in 1..MaxFactChunks, queued \in BOOLEAN :
          /\ queued => doc = 1
          /\ policy = [p \in PolicyIds |->
                        IF p # "p1" THEN AbsentPolicy
                        ELSE IF queued THEN PendingPolicy ELSE CompletedPolicy]
          /\ vectorIndex = Entries([policyId |-> "p1", id |-> doc], n)
          /\ policyChunk = ChunkRows("p1", doc, n)
          /\ clock = IF queued THEN 0 ELSE 1
          /\ isProcessing = queued
          /\ worker = [w \in JobIds |->
                        IF queued /\ w = 1
                        THEN [pc |-> "factsLoad", job |-> BufferJob,
                              escaping |-> FALSE, chunks |-> n]
                        ELSE IdleWorker]
          /\ jobs = [j \in JobIds |-> IF queued /\ j = 1 THEN BufferJob ELSE NoJob]
          /\ started = IF queued THEN <<[id |-> 1, behind |-> 0]>> ELSE <<>>
          /\ stepsDone = [j \in JobIds |->
                            IF queued /\ j = 1 THEN SubSeq(StepOrder, 1, 4) ELSE <<>>]
          /\ fx = IF queued THEN [IdleFx EXCEPT !.pc = "load", !.caller = 1]
                  ELSE IdleFx
    /\ policyFact = {}
    /\ jobQueue = <<>>
    /\ del = [d \in 1..MaxDeletes |-> [pc |-> "none", policyId |-> "p1", ids |-> {}]]
    /\ failedAt = [j \in JobIds |-> "none"]
    /\ statusWrites = [j \in JobIds |-> <<>>]
    /\ unlinkCount = [j \in JobIds |-> 0]
    /\ finished = [j \in JobIds |-> FALSE]
    /\ notFound = [j \in JobIds |-> FALSE]
    /\ fileReads = [j \in JobIds |-> 0]
    /\ rq = IdleRq
    /\ gw = IdleGw
    /\ parked = IdleRq

\* Calls of extractPolicyFacts, from the queue and from outside it; the
\* store and the generation may reject, the status updates of the queue
\* go through.
FactsNext ==
    \/ \E p \in PolicyIds : ExtractCall(p)
    \/ \E ok \in BOOLEAN : ExtractLoad(ok)
    \/ \E ok \in BOOLEAN, out \in Replies : ExtractGenerate(ok, out)
    \/ \E ok \in BOOLEAN : ExtractStore(ok)
    \/ \E w \in JobIds : UpdateCompleted(w, TRUE)
    \/ \E w \in JobIds : CatchUpdate(w, TRUE)

FactsSpec == FactsInit /\ [][FactsNext]_vars

\* ------------------------------------------- properties of the extraction
\* The calls of extractPolicyFacts that are over, and those that got a reply.
Ended == {fx.history[i] : i \in 1..Len(fx.history)}
Replied == {h \in Ended : h.reply # <<>>}

\* The reply has no {...} span, or it has one that JSON.parse rejects.
NoSpan(out) == MatchSpan(out) = <<>>
BadSpan(out) == MatchSpan(out) # <<>> /\ ~IsJson(MatchSpan(out))

\* C22: a call of extractPolicyFacts whose reply has no {...} span, or a span
\* that is not JSON, creates no PolicyFact row and returns without raising;
\* when the queue made the call, the job takes the extraction for done, and
\* once the job is over its one status write is completed.
C22_UnparseableReplyStillCompletes ==
    \A h \in Replied :
        (NoSpan(h.reply) \/ BadSpan(h.reply)) =>
            /\ h.created = 0
            /\ ~h.raised
            /\ h.caller # 0 =>
                  /\ failedAt[h.caller] = "none"
                  /\ "extractFacts" \in {stepsDone[h.caller][i] :
                                           i \in 1..Len(stepsDone[h.caller])}
                  /\ finished[h.caller] =>
                        /\ statusWrites[h.caller] = <<"completed">>
                        /\ policy[h.policyId].status = "completed"

\* The job of the queue is over, completed, after a reply whose span did not
\* parse, and a later call has returned after a reply without a span.
C22_Witness ==
    \E h, g \in Replied :
        /\ h.caller = 1 /\ BadSpan(h.reply) /\ ~h.raised
        /\ finished[1] /\ statusWrites[1] = <<"completed">>
        /\ g.caller = 0 /\ NoSpan(g.reply) /\ ~g.raised

\* The PolicyFact row that the call now over created for its i-th fact: the
\* store numbers the rows as they come, and no one else writes facts.
CreatedRows(i) ==
    {r \in policyFact : r.id = Cardinality(policyFact) - fx.created + i}

\* C23: when a call of extractPolicyFacts has returned, each fact of the parsed
\* array has exactly one PolicyFact row of its own, whose confidence is the
\* fact's when the fact gives one (0 included) and 0.5 when it gives none.
C23_ConfidenceAsSupplied ==
    fx.pc = "returned" =>
        /\ fx.created = Len(fx.facts)
        /\ \A i \in 1..Len(fx.facts) :
              /\ Cardinality(CreatedRows(i)) = 1
              /\ \A r \in CreatedRows(i) :
                    /\ r.policyId = fx.policyId
                    /\ r.name = fx.facts[i].name
                    /\ r.confidence = IF fx.facts[i].confidence.given
                                      THEN fx.facts[i].confidence.value
                                      ELSE DefaultConfidence

\* ------------------------------------------- retrieval beside ingestion
MaxMixedJobs == 1   \* calls of queuePolicyProcessing in one behaviour of MixedSpec

\* Two retrieval calls are under way at once: the one whose continuation
\* runs next is rq, the other waits at its await.  The event loop turns to
\* the other call.
Switch ==
    /\ rq # parked
    /\ rq' = parked
    /\ parked' = rq
    /\ UNCHANGED <<store, ingest, gw, fx>>

\* Callers enqueue documents held in a buffer and the worker processes them
\* while two callers search and ask; every external call answers.
MixedNext ==
    \/ Enqueue(MaxMixedJobs, {<<TRUE, NoPath, FALSE>>})
    \/ \E w \in JobIds : FindPolicy(w, TRUE)
    \/ \E w \in JobIds : ResolveBuffer(w, TRUE)
    \/ \E w \in JobIds, n \in 1..MaxChunks : ProcessPDF(w, TRUE, n, n)
    \/ \E w \in JobIds : CreateMany(w, TRUE)
    \/ \E w \in JobIds : FactsLoad(w, TRUE)
    \/ \E w \in JobIds, out \in GenOutputs : FactsGenerate(w, TRUE, out)
    \/ \E w \in JobIds : FactsStore(w, TRUE)
    \/ \E w \in JobIds : UpdateCompleted(w, TRUE)
    \/ \E w \in JobIds : CatchUpdate(w, TRUE)
    \/ HybridSearchCall(NoStateFilter, 1)
    \/ RagQueryCall(NoStateFilter, <<>>)
    \/ Embed(TRUE)
    \/ QueryIndex(TRUE)
    \/ Hydrate(TRUE)
    \/ Generate(TRUE)
    \/ Switch

MixedSpec == Init /\ [][MixedNext]_vars

\* C24: a step of hybridSearch or ragQuery, whichever of the two calls under
\* way takes it and wherever the worker stands, leaves the job queue, the
\* worker's flag, the Policy rows, the chunk rows, the fact rows and the
\* vector entries as they were.
C24_RetrievalWritesNothing ==
    [][(rq' # rq \/ parked' # parked) =>
          UNCHANGED <<jobQueue, isProcessing, policy, policyChunk, policyFact,
                      vectorIndex>>]_vars

\* A question and a search have both returned, the question with passages
\* that the job of the queue embedded while the calls were going on.
C24_Witness ==
    /\ rq.op = "rag" /\ rq.pc = "returned" /\ Len(rq.results) > 0
    /\ parked.op = "search" /\ parked.pc = "returned"
    /\ \E j \in JobIds : finished[j] /\ statusWrites[j] = <<"completed">>

\* ----------------------------------------------- chunk rows and the index
\* The vector entries that correspond to chunk row r: those under the key
\* made of its policy and its chunk index.
EntriesFor(r) == {e \in vectorIndex : e.id = VectorId(r.policyId, r.chunkIndex)}

\* Text a is the beginning of text b.
IsTextPrefix(a, b) == a.text = b.text /\ a.length <= b.length

\* C25: every PolicyChunk row has at most one vector entry, and the preview in
\* that entry's metadata is the beginning of the row's content.
C25_PreviewIsPrefixOfRow ==
    \A r \in policyChunk :
        /\ Cardinality(EntriesFor(r)) <= 1
        /\ \A e \in EntriesFor(r) :
              IsTextPrefix(Metadata(e).content, ChunkContent(r.doc, r.chunkIndex))

\* C26: no two PolicyChunk rows of one policy have the same chunkIndex.
C26_ChunkIndexUnique ==
    \A r, s \in policyChunk :
        (r.policyId = s.policyId /\ r.chunkIndex = s.chunkIndex) => r = s

\* ------------------------------------------------- the payload of a job
\* The queue with every payload a caller can pass; every external call
\* answers and no policy is deleted.
PayloadNext ==
    \/ Enqueue(MaxJobs, Payloads)
    \/ \E w \in JobIds : FindPolicy(w, TRUE)
    \/ \E w \in JobIds : ResolveBuffer(w, TRUE)
    \/ \E w \in JobIds, n \in 1..MaxChunks : ProcessPDF(w, TRUE, n, n)
    \/ \E w \in JobIds : CreateMany(w, TRUE)
    \/ \E w \in JobIds : FactsLoad(w, TRUE)
    \/ \E w \in JobIds, out \in GenOutputs : FactsGenerate(w, TRUE, out)
    \/ \E w \in JobIds : FactsStore(w, TRUE)
    \/ \E w \in JobIds : UpdateCompleted(w, TRUE)
    \/ \E w \in JobIds : CatchUpdate(w, TRUE)
    \/ \E w \in JobIds : Unlink(w, TRUE)

PayloadSpec == Init /\ [][PayloadNext]_vars

\* The steps of job j that returned.
Done(j) == {stepsDone[j][i] : i \in 1..Len(stepsDone[j])}

\* Job j has been through its call of resolveBuffer.
Resolved(j) == "resolveBuffer" \in Done(j) \/ failedAt[j] = "resolveBuffer"

AscendingChunks(p) ==
    CHOOSE f \in Orderings(RowsOf(p)) :
        \A i, j \in 1..Len(f) : i < j => f[i].chunkIndex <= f[j].chunkIndex

\* C28: the text a call of extractPolicyFacts sends to the generation is the
\* contents of the policy's chunk rows, joined in ascending order of
\* chunkIndex and cut to its first 12,000 characters, and a call that got as
\* far as the generation called it once.
C28_TextInChunkOrder ==
    /\ fx.generations <= 1
    /\ fx.pc \in {"generate", "store", "returned"} =>
          fx.sent = TextSlice(FullText(AscendingChunks(fx.policyId)), TextBudget)
    /\ fx.pc \in {"store", "returned"} => fx.generations = 1

\* The first span of a reply that opens with a brace and ends where that
\* brace is closed; the empty sequence when there is none.
RECURSIVE ClosedAt(_, _, _)
ClosedAt(out, i, depth) ==
    IF i > Len(out) THEN 0
    ELSE IF out[i].t = "open" THEN ClosedAt(out, i + 1, depth + 1)
    ELSE IF out[i].t = "close" /\ depth = 1 THEN i
    ELSE IF out[i].t = "close" THEN ClosedAt(out, i + 1, depth - 1)
    ELSE ClosedAt(out, i + 1, depth)

FirstBalancedSpan(out) ==
    LET opens == {i \in 1..Len(out) : out[i].t = "open"}
        first == CHOOSE i \in opens : \A j \in opens : i <= j
    IN IF opens = {} THEN <<>>
       ELSE IF ClosedAt(out, first, 0) = 0 THEN <<>>
       ELSE SubSeq(out, first, ClosedAt(out, first, 0))

\* C29: the facts a call of extractPolicyFacts takes from a reply are those
\* of the reply's first balanced {...} span when that span is a JSON object,
\* whatever follows the span, and a call that returned has stored them all.
C29_FirstBalancedSpanParsed ==
    fx.pc \in {"store", "returned"} =>
        LET span == FirstBalancedSpan(fx.reply)
        IN /\ IsJson(span) =>
                 fx.facts = [i \in 1..(Len(span) - 2) |-> span[i + 1].fact]
           /\ fx.pc = "returned" => fx.created = Len(fx.facts)

\* The rows that policy p has of fact f.
CopiesOf(p, f) ==
    {r \in policyFact : r.policyId = p /\ r.name = f.name
                        /\ r.confidence = StoredConfidence(f)}

\* Every call so far was for the same policy, got the same reply, and
\* returned.
SameRuns ==
    /\ fx.pc = "returned"
    /\ \A h \in Ended : /\ ~h.raised
                        /\ h.policyId = fx.policyId
                        /\ h.reply = fx.reply

\* C30: no step deletes or changes a PolicyFact row, and after k calls of
\* extractPolicyFacts for one policy that all got the same reply and
\* returned, the policy has k rows of each fact of that reply.
C30_InsertOnly ==
    /\ [][policyFact \subseteq policyFact']_vars
    /\ [](SameRuns =>
            \A i \in 1..Len(fx.facts) :
                Cardinality(CopiesOf(fx.policyId, fx.facts[i])) =
                    Len(fx.history) * Cardinality({j \in 1..Len(fx.facts) :
                                                     fx.facts[j] = fx.facts[i]}))

\* Two calls for p1 got the same reply with two facts and returned: there
\* are four rows.
C30_Witness ==
    /\ SameRuns
    /\ Len(fx.history) = 2
    /\ Len(fx.facts) = 2
    /\ Cardinality(policyFact) = 4

\* ------------------------------------------------ over-fetch and truncation
\* The matches of the index's answer that a returned search could keep:
\* those with a score, of at least 0.7.
Eligible == {m \in rq.matches : m.score # NoScore /\ m.score >= 70}

\* The matches of the index's answer that the returned list was built from.
Chosen == {m \in rq.matches : \E i \in 1..Len(rq.results) : rq.results[i].chunkId = m.id}

\* C31: search asks the index for exactly 2 x topK candidates, and the list
\* it returns holds precisely the min(topK, m) highest-similarity ones of the
\* m answered candidates whose score is defined and at least 0.7: one result
\* for each, none for a candidate without a score.
C31_OverFetchAndBestOf ==
    /\ (rq.op = "search" /\ rq.pc \in {"query", "returned"}) => rq.asked = 2 * rq.topK
    /\ Returned =>
          /\ Len(rq.results) = Min(rq.topK, Cardinality(Eligible))
          /\ Cardinality(Chosen) = Len(rq.results)
          /\ Chosen \subseteq Eligible
          /\ \A i \in 1..Len(rq.results) :
                \E m \in Eligible : /\ rq.results[i].chunkId = m.id
                                    /\ rq.results[i].similarity = m.score
          /\ \A kept \in Chosen, left \in Eligible \ Chosen : left.score <= kept.score

\* A search for one result asked for two candidates; the index answered one
\* without a score and one scored 0.70, and the search returned the latter.
C31_Witness ==
    /\ Returned
    /\ rq.topK = 1
    /\ rq.asked = 2
    /\ {m.score : m \in rq.matches} = {NoScore, 70}
    /\ Len(rq.results) = 1

\* ------------------------------------------------ metadata of any shape
\* JavaScript values as the index can hand them back in a match's metadata.
Str(s) == [type |-> "string", str |-> s, num |-> 0]
Num(n) == [type |-> "number", str |-> "", num |-> n]
NaN == [type |-> "number", str |-> "NaN", num |-> 0]
Bool(b) == [type |-> "boolean", str |-> "", num |-> IF b THEN 1 ELSE 0]
Undefined == [type |-> "undefined", str |-> "", num |-> 0]
ListOf(s) == [type |-> "object", str |-> s, num |-> 0]

\* typeof v
TypeOf(v) == v.type

\* v ?? d
OrElse(v, d) == IF TypeOf(v) = "undefined" THEN d ELSE v

\* Number(v): a numeric string is parsed, the empty string is 0, a boolean is
\* 0 or 1, and a string or a list that is no numeral is NaN.
ToNumber(v) ==
    CASE TypeOf(v) = "number" -> v
      [] TypeOf(v) = "boolean" -> Num(v.num)
      [] TypeOf(v) = "string" -> IF v.str = "3" THEN Num(3)
                                 ELSE IF v.str = "" THEN Num(0) ELSE NaN
      [] OTHER -> NaN

\* String(v)
StringOf(v) ==
    CASE TypeOf(v) = "string" -> v
      [] TypeOf(v) = "number" -> IF v.str = "NaN" THEN Str("NaN") ELSE Str("3")
      [] TypeOf(v) = "boolean" -> Str(IF v.num = 1 THEN "true" ELSE "false")
      [] OTHER -> Str(v.str)

\* (match.metadata ?? {}) as Partial<PineconeMetadata>: a field that is not
\* there reads undefined.
NoMetadata ==
    [given |-> FALSE, content |-> Undefined, pageNumber |-> Undefined,
     policyId |-> Undefined, stateName |-> Undefined, policyTitle |-> Undefined]

\* The metadata the index can answer for a match: none at all, or a record
\* whose fields are each there, missing or of another type.
PageNumbers == {Num(3), Undefined, Str("3"), Str("p3"), Bool(TRUE), ListOf("3")}
Names == {Str("Texas"), Undefined, Num(7)}
MetadataShapes ==
    {NoMetadata} \cup
    {[given |-> TRUE, content |-> Str("text"), pageNumber |-> page,
      policyId |-> Str("p1"), stateName |-> name.state, policyTitle |-> name.title] :
        page \in PageNumbers,
        name \in {[state |-> Str("Texas"), title |-> Str("Title")],
                  [state |-> Undefined, title |-> Undefined],
                  [state |-> Num(7), title |-> ListOf("Title")],
                  [state |-> Str("Texas"), title |-> Undefined]}}

\* The map step of hybridSearch, field by field.
TypedResult(m) ==
    LET metadata == IF m.metadata.given THEN m.metadata ELSE NoMetadata
    IN [chunkId |-> m.id,
        content |-> IF TypeOf(metadata.content) = "string" THEN metadata.content
                    ELSE StringOf(OrElse(metadata.content, Str(""))),
        pageNumber |-> IF TypeOf(metadata.pageNumber) = "number" THEN metadata.pageNumber
                       ELSE ToNumber(OrElse(metadata.pageNumber, Num(1))),
        similarity |-> m.score,
        policyId |-> IF TypeOf(metadata.policyId) = "string" THEN metadata.policyId
                     ELSE StringOf(OrElse(metadata.policyId, Str(""))),
        stateName |-> IF TypeOf(metadata.stateName) = "string" THEN metadata.stateName
                      ELSE Str("Unknown"),
        policyTitle |-> IF TypeOf(metadata.policyTitle) = "string" THEN metadata.policyTitle
                        ELSE Str("Unknown Policy")]

\* queryVectors answers matches whose metadata has any of the shapes;
\* hybridSearch filters, maps, sorts and slices them and returns.
QueryAnyMetadata(ok) ==
    /\ rq.pc = "query"
    /\ rq.op = "search"
    /\ IF ~ok THEN Raise("index")
       ELSE \E scored \in IndexReplies(vectorIndex, rq.asked, rq.filter) :
            \E shape \in [scored -> MetadataShapes] :
              LET matches == {[id |-> m.id, score |-> m.score, metadata |-> shape[m]] :
                                m \in scored}
              IN \E results \in {SliceTo(f, rq.topK) :
                                   f \in SortedBySimilarity({TypedResult(m) : m \in Retained(matches)})} :
                   rq' = [rq EXCEPT !.pc = "returned", !.matches = matches,
                                    !.results = results]
    /\ UNCHANGED <<store, ingest, gw, fx, parked>>

\* Searches of an index that holds the entries of one policy and answers
\* metadata of any shape.
MetadataInit ==
    /\ RetrievalInit
    /\ \A e \in vectorIndex : e.policyId = "p1"

MetadataNext ==
    \/ \E k \in 1..MaxTopK : HybridSearchCall(NoStateFilter, k)
    \/ \E ok \in BOOLEAN : Embed(ok)
    \/ \E ok \in BOOLEAN : QueryAnyMetadata(ok)

MetadataSpec == MetadataInit /\ [][MetadataNext]_vars

\* The match a result of the returned list was made from.
MatchOf(r) == CHOOSE m \in rq.matches : m.id = r.chunkId

\* The stored value of a field of a match's metadata, undefined when the
\* match has no metadata.
Stored(m, field) == IF m.metadata.given THEN m.metadata[field] ELSE Undefined

\* C32: whatever the metadata of a retained candidate, search returns a
\* typed result for it: stateName is a string, "Unknown" unless a string was
\* stored, policyTitle is a string, "Unknown Policy" unless a string was
\* stored, and pageNumber is a valid number, 1 when the stored page number is
\* missing or is not a number.
C32_TypedDefaults ==
    Returned =>
        /\ Len(rq.results) = Min(rq.topK, Cardinality(Retained(rq.matches)))
        /\ \A i \in 1..Len(rq.results) :
              LET r == rq.results[i]
                  m == MatchOf(r)
              IN /\ TypeOf(r.stateName) = "string"
                 /\ TypeOf(Stored(m, "stateName")) # "string" => r.stateName = Str("Unknown")
                 /\ TypeOf(r.policyTitle) = "string"
                 /\ TypeOf(Stored(m, "policyTitle")) # "string" =>
                        r.policyTitle = Str("Unknown Policy")
                 /\ TypeOf(r.pageNumber) = "number"
                 /\ r.pageNumber # NaN
                 /\ TypeOf(Stored(m, "pageNumber")) # "number" => r.pageNumber = Num(1)

\* ------------------------------------------------ processedAt and status
\* Job j has just written status s to its policy.
Wrote(j, s) == statusWrites'[j] = Append(statusWrites[j], s)

\* C33: processedAt of a Policy row changes only in the step that sets the
\* row to completed; the step that sets it to failed leaves processedAt as it
\* was, and no other step of the core writes it.
C33_ProcessedAtOnlyByCompleted ==
    [][\A p \in PolicyIds :
          /\ (policy'[p].exists /\ policy'[p].processedAt # policy[p].processedAt) =>
                /\ policy'[p].status = "completed"
                /\ \E j \in JobIds : Wrote(j, "completed") /\ jobs[j].policyId = p
          /\ (\E j \in JobIds : Wrote(j, "failed") /\ jobs[j].policyId = p) =>
                /\ policy'[p].status = "failed"
                /\ policy'[p].processedAt = policy[p].processedAt]_vars

\* A policy that one job completed was set to failed by a later job, and
\* still has the processedAt of the first.
C33_Witness ==
    \E p \in PolicyIds, j, k \in JobIds :
        /\ j # k
        /\ statusWrites[j] = <<"completed">>
        /\ statusWrites[k] = <<"failed">>
        /\ jobs[j].policyId = p
        /\ jobs[k].policyId = p
        /\ policy[p].status = "failed"
        /\ policy[p].processedAt > 0

\* ------------------------------------------------ the worker-active flag
\* C34: whenever the queue holds a job the worker-active flag is set (an
\* enqueue runs to its first await in one step, so none is ever mid-way), and
\* the step that clears the flag finds the queue empty and leaves it empty:
\* the emptiness check and the clearing are one step.
C34_QueuedImpliesFlag ==
    /\ [](jobQueue # <<>> => isProcessing)
    /\ [][(isProcessing /\ ~isProcessing') => (jobQueue = <<>> /\ jobQueue' = <<>>)]_vars

\* The first invocation drained the queue, cleared the flag and returned; a
\* later one set the flag again and is in the loop with a job waiting.
C34_Witness ==
    /\ worker[1].pc = "returned"
    /\ finished[1]
    /\ \E v \in JobIds : InLoop(v)
    /\ jobQueue # <<>>
    /\ isProcessing

\* C35: the worker-active flag is set only while an invocation of
\* processQueue is in its loop; an invocation that has left the loop, by
\* returning or by an exception out of the catch block, has cleared it.
C35_FlagOnlyWhileLoopRuns ==
    isProcessing => \E w \in JobIds : InLoop(w)

\* The values the worker may write to Policy.status.
TerminalStatuses == {"completed", "failed"}

\* C36: a job writes the status of its policy at most once, with completed
\* or failed and never with pending or processing, so no job sets a policy
\* to completed and then to failed; and every change of a status is such a
\* write of a job of that policy.
C36_OneTerminalWritePerJob ==
    /\ [](\A j \in JobIds :
            /\ Len(statusWrites[j]) <= 1
            /\ \A i \in 1..Len(statusWrites[j]) : statusWrites[j][i] \in TerminalStatuses)
    /\ [][\A p \in PolicyIds :
            (policy'[p].exists /\ policy'[p].status # policy[p].status) =>
                /\ policy'[p].status \in TerminalStatuses
                /\ \E j \in JobIds : Wrote(j, policy'[p].status) /\ jobs[j].policyId = p]_vars

\* A job got as far as the update to completed, which rejected, and then
\* wrote failed: its one write.
C36_Witness ==
    \E j \in JobIds :
        /\ failedAt[j] = "updateCompleted"
        /\ statusWrites[j] = <<"failed">>
        /\ policy[jobs[j].policyId].status = "failed"

\* ------------------------------------------------ vectors of failed jobs
\* The entries of the index that job j upserted.
WrittenBy(j) == {e \in vectorIndex : e.doc = j /\ e.policyId = jobs[j].policyId}

\* C37: once a job has ended failed, whatever the step that raised, the
\* index holds no entry that the job wrote; so every entry of the index
\* that search can return belongs to a policy whose ingestion completed.
C37_NoVectorsOfFailedJob ==
    /\ \A j \in JobIds : (finished[j] /\ failedAt[j] # "none") => WrittenBy(j) = {}
    /\ \A e \in vectorIndex :
          policy[e.policyId].exists => policy[e.policyId].status = "completed"

\* ------------------------------------------- deletePolicy during ingestion
\* Jobs that carry a buffer, and deletePolicy; every external call answers,
\* so a job fails only where the program's own state makes it fail.
DeleteRaceNext ==
    \/ Enqueue(MaxJobs, {<<TRUE, NoPath, FALSE>>})
    \/ \E w \in JobIds : FindPolicy(w, TRUE)
    \/ \E w \in JobIds : ResolveBuffer(w, TRUE)
    \/ \E w \in JobIds, n \in 1..MaxChunks : ProcessPDF(w, TRUE, n, n)
    \/ \E w \in JobIds : CreateMany(w, TRUE)
    \/ \E w \in JobIds : FactsLoad(w, TRUE)
    \/ \E w \in JobIds, out \in GenOutputs : FactsGenerate(w, TRUE, out)
    \/ \E w \in JobIds : FactsStore(w, TRUE)
    \/ \E w \in JobIds : UpdateCompleted(w, TRUE)
    \/ \E w \in JobIds : CatchUpdate(w, TRUE)
    \/ \E d \in 1..MaxDeletes, p \in PolicyIds : DeletePolicyStart(d, p, TRUE)
    \/ \E d \in 1..MaxDeletes : DeleteQuery(d, TRUE)
    \/ \E d \in 1..MaxDeletes : DeleteMany(d, TRUE)

DeleteRaceSpec == Init /\ [][DeleteRaceNext]_vars

\* Call d of deletePolicy has returned, and job j of the same policy, which
\* had found the Policy row, has ended without writing completed: with every
\* external call answering, the row went away while the job was in flight.
DeletedInFlight(d, j) ==
    /\ del[d].pc = "done"
    /\ Enqueued(j)
    /\ jobs[j].policyId = del[d].policyId
    /\ finished[j]
    /\ "findPolicy" \in Done(j)
    /\ statusWrites[j] # <<"completed">>

\* C38: when deletePolicy(p) and an ingestion job for p that was in flight
\* during it have both finished, the index holds no entry of p, no chunk or
\* fact row of p is left, and the worker can still process jobs: the
\* invocation that ran the job has not ended rejected, and with no invocation
\* in the loop the flag is clear.
C38_DeleteDuringIngestion ==
    \A d \in 1..MaxDeletes, j \in JobIds :
        DeletedInFlight(d, j) =>
            /\ \A e \in vectorIndex : e.policyId # del[d].policyId
            /\ RowsOf(del[d].policyId) = {}
            /\ FactsOf(del[d].policyId) = {}
            /\ \A w \in JobIds : ~(worker[w].pc = "rejected" /\ worker[w].job.id = j)
            /\ Quiescent => ~isProcessing

====
